---- MODULE Spec2Model ----
(***************************************************************************)
(* RV64 instruction-set simulator: hart state, CSR file, CLINT, 16550      *)
(* UART, bus and the fetch/decode/execute step.                            *)
(*                                                                         *)
(* Representation.  TLC integers are 32-bit, so a u64 (register, CSR, PC,  *)
(* address), a u32 instruction word and a u8 are modelled as the set of    *)
(* their one-bits (a subset of 0..63, 0..31, 0..7), so that & | ! are set  *)
(* operations; u16 CSR addresses, register indices and device offsets are  *)
(* naturals.  An Option<u8> is a sequence of length 0 or 1.  A Rust panic  *)
(* is the flag fatal, which ends the run.  The variables ev, prev, entry    *)
(* and log record what has happened (the last operation, the CPU before    *)
(* it, the last trap entry, the bus operations so far); the program does   *)
(* not read them.                                                          *)
(***************************************************************************)
EXTENDS Integers, Sequences, FiniteSets, TLC

VARIABLES regs, csr, pc, mode, halted, clint, memory, uart, reservations,
          fatal, ev, prev, entry, log

vars == <<regs, csr, pc, mode, halted, clint, memory, uart, reservations,
          fatal, ev, prev, entry, log>>

cpuVars == <<regs, csr, pc, mode, halted, clint, memory, reservations>>

(***************************************************************************)
(* Bit-level helpers                                                       *)
(***************************************************************************)
RECURSIVE NatOf(_)
\* the natural number whose one-bits are S (S within 0..30)
NatOf(S) ==
    IF S = {} THEN 0
    ELSE LET i == CHOOSE x \in S : TRUE IN (2 ^ i) + NatOf(S \ {i})

\* the one-bits of the natural n < 2^31
BitsOf(n) == {i \in 0..30 : (n \div (2 ^ i)) % 2 = 1}

\* u64 << n, u64 >> n (logical), truncated to 64 bits
Shl(a, n) == {i + n : i \in a} \cap (0..63)
Shr(a, n) == {i - n : i \in {j \in a : j >= n}}

RECURSIVE Add64(_, _)
\* wrapping 64-bit addition: sum bits, then add the carries
Add64(a, b) ==
    IF b = {} THEN a
    ELSE Add64((a \cup b) \ (a \cap b), Shl(a \cap b, 1))

Not64(a) == (0..63) \ a

RECURSIVE Sub64(_, _)
\* wrapping 64-bit subtraction: difference bits, then subtract the borrows
Sub64(a, b) ==
    IF b = {} THEN a
    ELSE Sub64((a \cup b) \ (a \cap b), Shl(b \ a, 1))

\* unsigned a < b: the highest differing bit belongs to b
Ltu(a, b) ==
    LET d == (a \cup b) \ (a \cap b)
    IN d # {} /\ (CHOOSE i \in d : \A j \in d : j <= i) \in b

Geu(a, b) == ~Ltu(a, b)

\* signed a < b on 64-bit two's complement
Lts(a, b) ==
    IF (63 \in a) # (63 \in b) THEN 63 \in a ELSE Ltu(a, b)

\* sign-extend the low w bits of a to 64 bits
SignExt(a, w) ==
    LET low == a \cap (0..(w - 1))
    IN IF (w - 1) \in a THEN low \cup (w..63) ELSE low

\* zero-extend the low w bits
ZeroExt(a, w) == a \cap (0..(w - 1))

\* the field of n bits of word a starting at bit lo, as a natural
Field(a, lo, n) == NatOf(Shr(a, lo) \cap (0..(n - 1)))

\* a << n without truncation (for intermediate values wider than 64 bits)
ShlW(a, n) == {i + n : i \in a}

RECURSIVE AddW(_, _)
\* addition without truncation
AddW(a, b) ==
    IF b = {} THEN a
    ELSE AddW((a \cup b) \ (a \cap b), ShlW(a \cap b, 1))

RECURSIVE SubW(_, _)
\* a - b for a >= b
SubW(a, b) ==
    IF b = {} THEN a
    ELSE SubW((a \cup b) \ (a \cap b), ShlW(b \ a, 1))

RECURSIVE MulBits(_, _, _, _)
\* the sum of a << i over the one-bits i of b in lo..hi, by halves
MulBits(a, b, lo, hi) ==
    IF lo = hi THEN (IF lo \in b THEN ShlW(a, lo) ELSE {})
    ELSE CHOOSE p \in {AddW(x, y) :
                          x \in {MulBits(a, b, lo, (lo + hi) \div 2)},
                          y \in {MulBits(a, b, ((lo + hi) \div 2) + 1, hi)}} :
             TRUE

\* the full product of two numbers of up to 128 bits
MulW(a, b) == MulBits(a, b, 0, 127)

\* u64::wrapping_mul
Mul64(a, b) == MulW(a, b) \cap (0..63)

\* the value as a 128-bit two's complement number (i64 as i128)
Sx128(a) == a \cup (IF 63 \in a THEN 64..127 ELSE {})

\* bits 127..64 of a 128-bit product
High64(p) == Shr(p \cap (0..127), 64)

\* one step of unsigned long division at bit i: st holds the quotient q and
\* the remainder r so far
DivStep(a, b, i, st) ==
    CHOOSE n \in {IF Ltu(r1, b) THEN [q |-> st.q, r |-> r1]
                  ELSE [q |-> st.q \cup {i}, r |-> SubW(r1, b)] :
                    r1 \in {ShlW(st.r, 1) \cup (IF i \in a THEN {0} ELSE {})}} :
        TRUE

RECURSIVE DivModW(_, _, _, _, _)
\* long division of a by b # 0 over the bits i down to lo
DivModW(a, b, i, lo, st) ==
    IF i < lo THEN st
    ELSE CHOOSE n \in {DivModW(a, b, i - 1, lo, s1) : s1 \in {DivStep(a, b, i, st)}} :
             TRUE

\* the quotient and remainder of a / b for 64-bit a and b # 0, sixteen bits
\* at a time
DivMod64(a, b) ==
    CHOOSE n \in {DivModW(a, b, 15, 0, s3) :
                    s3 \in {DivModW(a, b, 31, 16, s2) :
                      s2 \in {DivModW(a, b, 47, 32, s1) :
                        s1 \in {DivModW(a, b, 63, 48, [q |-> {}, r |-> {}])}}}} :
        TRUE

\* u64::wrapping_div and u64::wrapping_rem for b # 0
Divu64(a, b) == DivMod64(a, b).q
Remu64(a, b) == DivMod64(a, b).r

Neg64(a) == Sub64({}, a)

\* the magnitude of an i64 (2^63 for i64::MIN)
Abs64(a) == IF 63 \in a THEN Neg64(a) ELSE a

\* variant of Divs64 that saturates: i64::MIN / -1 = i64::MAX
Divs64_saturating(a, b) ==
    IF a = {63} /\ b = 0..63 THEN 0..62
    ELSE LET q == Divu64(Abs64(a), Abs64(b))
         IN IF (63 \in a) # (63 \in b) THEN Neg64(q) ELSE q

\* i64::wrapping_div for b # 0: truncated quotient, i64::MIN / -1 = i64::MIN
Divs64(a, b) ==
    LET q == Divu64(Abs64(a), Abs64(b))
    IN IF (63 \in a) # (63 \in b) THEN Neg64(q) ELSE q

\* i64::wrapping_rem for b # 0: the sign of the dividend, i64::MIN % -1 = 0
Rems64(a, b) ==
    LET r == Remu64(Abs64(a), Abs64(b))
    IN IF 63 \in a THEN Neg64(r) ELSE r

(***************************************************************************)
(* UART (devices/uart.rs)                                                  *)
(***************************************************************************)
UART_RBR == 0
UART_THR == 0
UART_IER == 1
UART_IIR == 2
UART_FCR == 2
UART_LCR == 3
UART_LSR == 5
UART_SCR == 7

LSR_DR == {0}
LSR_THRE == {5}
LSR_TEMT == {6}

IER_RX_ENABLE == {0}
IER_TX_ENABLE == {1}

IIR_NO_INTERRUPT == {0}
IIR_RX_INTERRUPT == {2}
IIR_TX_INTERRUPT == {1}
IIR_FIFO_ENABLED == {6, 7}

FIFO_CAPACITY == 16

\* MockTerminal / StdioTerminal: a queue of host input, a log of output
Terminal_new == [input |-> <<>>, output |-> <<>>]

Terminal_write(t, data) == [t EXCEPT !.output = Append(@, data)]

\* the mark that ends the queue of a StdioTerminal once the reader thread has
\* ended and dropped the sender; it is no byte
Hangup == {8}

\* variant of Terminal_read that leaves the byte it returns in the queue
Terminal_read_peek(t) ==
    IF t.input = <<>> \/ Head(t.input) = Hangup THEN [terminal |-> t, data |-> <<>>]
    ELSE [terminal |-> t, data |-> <<Head(t.input)>>]

\* returns the byte read (Option) and the terminal after the read.
\* MockTerminal pops the front of its queue; StdioTerminal calls try_recv,
\* which fails with Empty on an empty queue and with Disconnected once the
\* queue is drained and the sender is gone, and both give None
Terminal_read(t) ==
    IF t.input = <<>> \/ Head(t.input) = Hangup THEN [terminal |-> t, data |-> <<>>]
    ELSE [terminal |-> [t EXCEPT !.input = Tail(@)], data |-> <<Head(t.input)>>]

Uart_new ==
    [rx_fifo |-> <<>>, tx_fifo |-> <<>>, tsr |-> <<>>, ier |-> {},
     iir |-> IIR_FIFO_ENABLED \cup IIR_NO_INTERRUPT, lcr |-> {},
     lsr |-> LSR_TEMT \cup LSR_THRE, scr |-> {}, terminal |-> Terminal_new]

update_lsr(u) ==
    LET l1 == IF u.rx_fifo # <<>> THEN u.lsr \cup LSR_DR
              ELSE u.lsr \ LSR_DR
        l2 == IF u.tx_fifo = <<>>
              THEN IF u.tsr = <<>> THEN (l1 \cup LSR_THRE) \cup LSR_TEMT
                   ELSE (l1 \cup LSR_THRE) \ LSR_TEMT
              ELSE l1 \ (LSR_THRE \cup LSR_TEMT)
    IN [u EXCEPT !.lsr = l2]

update_iir(u) ==
    IF (u.ier \cap IER_RX_ENABLE) # {} /\ u.rx_fifo # <<>>
    THEN [u EXCEPT !.iir = IIR_FIFO_ENABLED \cup IIR_RX_INTERRUPT]
    ELSE IF (u.ier \cap IER_TX_ENABLE) # {} /\ u.tx_fifo = <<>>
    THEN [u EXCEPT !.iir = IIR_FIFO_ENABLED \cup IIR_TX_INTERRUPT]
    ELSE [u EXCEPT !.iir = IIR_FIFO_ENABLED \cup IIR_NO_INTERRUPT]

tx_fifo_push(u, data) ==
    IF Len(u.tx_fifo) < FIFO_CAPACITY
    THEN update_lsr([u EXCEPT !.tx_fifo = Append(@, data)])
    ELSE u

\* pops the front of tx_fifo (Option) and recomputes LSR
tx_fifo_pop(u) ==
    IF u.tx_fifo = <<>> THEN [uart |-> update_lsr(u), res |-> <<>>]
    ELSE [uart |-> update_lsr([u EXCEPT !.tx_fifo = Tail(@)]),
          res |-> <<Head(u.tx_fifo)>>]

rx_fifo_push(u, data) ==
    IF Len(u.rx_fifo) < FIFO_CAPACITY
    THEN update_iir(update_lsr([u EXCEPT !.rx_fifo = Append(@, data)]))
    ELSE u

rx_fifo_pop(u) ==
    IF u.rx_fifo = <<>> THEN [uart |-> update_lsr(u), res |-> <<>>]
    ELSE [uart |-> update_lsr([u EXCEPT !.rx_fifo = Tail(@)]),
          res |-> <<Head(u.rx_fifo)>>]

\* variant of transmit that holds a byte in the shift register until the
\* next one is written
transmit_holding(u) ==
    IF u.tsr = <<>>
    THEN LET p == tx_fifo_pop(u) IN [p.uart EXCEPT !.tsr = p.res]
    ELSE LET p == tx_fifo_pop(u)
         IN [p.uart EXCEPT !.tsr = p.res,
                           !.terminal = Terminal_write(@, u.tsr[1])]

\* variant of transmit that either loads the shift register or empties it
\* to the terminal, one of the two per call
transmit_deferred(u) ==
    IF u.tsr = <<>>
    THEN LET p == tx_fifo_pop(u) IN [p.uart EXCEPT !.tsr = p.res]
    ELSE [u EXCEPT !.tsr = <<>>, !.terminal = Terminal_write(@, u.tsr[1])]

transmit(u) ==
    LET u1 == IF u.tsr = <<>>
              THEN LET p == tx_fifo_pop(u) IN [p.uart EXCEPT !.tsr = p.res]
              ELSE u
    IN IF u1.tsr # <<>>
       THEN [u1 EXCEPT !.tsr = <<>>,
                       !.terminal = Terminal_write(@, u1.tsr[1])]
       ELSE u1

\* returns the UART after the read, the byte read, and whether it panicked
Uart_read8(u, offset) ==
    CASE offset = UART_RBR ->
           LET p == rx_fifo_pop(u)
           IN IF p.res # <<>>
              THEN [uart |-> update_iir(update_lsr(p.uart)), val |-> p.res[1],
                    panic |-> FALSE]
              ELSE [uart |-> p.uart, val |-> {}, panic |-> FALSE]
      [] offset = UART_IER -> [uart |-> u, val |-> u.ier, panic |-> FALSE]
      [] offset = UART_IIR -> [uart |-> u, val |-> u.iir, panic |-> FALSE]
      [] offset = UART_LCR -> [uart |-> u, val |-> u.lcr, panic |-> FALSE]
      [] offset = UART_LSR ->
           LET u1 == update_lsr(u)
           IN [uart |-> u1, val |-> u1.lsr, panic |-> FALSE]
      [] offset = UART_SCR -> [uart |-> u, val |-> u.scr, panic |-> FALSE]
      [] OTHER -> [uart |-> u, val |-> {}, panic |-> TRUE]

\* returns the UART after the write and whether it panicked
Uart_write8(u, offset, value) ==
    CASE offset = UART_THR ->
           [uart |-> update_iir(transmit(tx_fifo_push(u, value))),
            panic |-> FALSE]
      [] offset = UART_IER ->
           [uart |-> update_iir([u EXCEPT !.ier =
                        (u.ier \cap (4..7)) \cup (value \cap (0..3))]),
            panic |-> FALSE]
      [] offset = UART_FCR ->
           LET u1 == IF 1 \in value THEN [u EXCEPT !.rx_fifo = <<>>]
                     ELSE u
               u2 == IF 2 \in value THEN [u1 EXCEPT !.tx_fifo = <<>>]
                     ELSE u1
           IN [uart |-> u2, panic |-> FALSE]
      [] offset = UART_LCR -> [uart |-> [u EXCEPT !.lcr = value], panic |-> FALSE]
      [] offset = UART_SCR -> [uart |-> [u EXCEPT !.scr = value], panic |-> FALSE]
      [] OTHER -> [uart |-> u, panic |-> TRUE]

receive_input(u) ==
    LET r == Terminal_read(u.terminal)
        u1 == [u EXCEPT !.terminal = r.terminal]
    IN IF r.data # <<>> THEN rx_fifo_push(u1, r.data[1]) ELSE u1

push_input(u, data) == rx_fifo_push(u, data)

check_interrupt(u) == (u.iir \cap IIR_NO_INTERRUPT) = {}

(***************************************************************************)
(* CSR file (csr.rs)                                                       *)
(***************************************************************************)
MSTATUS == 768
MISA == 769
MIE == 772
MTVEC == 773
MEPC == 833
MCAUSE == 834
MTVAL == 835
MIP == 836
MHARTID == 3860
SSTATUS == 256
STVEC == 261
SEPC == 321
SCAUSE == 322
STVAL == 323

MSTATUS_MIE == {3}
MSTATUS_MPIE == {7}
MSTATUS_MPP == {11, 12}
SSTATUS_SIE == {1}
SSTATUS_SPIE == {5}
SSTATUS_SPP == {8}

MIP_MSIP == {3}
MIP_MTIP == {7}
MIP_MEIP == {11}
MIE_MSIE == {3}
MIE_MTIE == {7}
MIE_MEIE == {11}

INTERRUPT_BIT == {63}
INTERRUPT_FROM_SOFTWARE == {0, 1}
INTERRUPT_FROM_TIMER == {0, 1, 2}
INTERRUPT_FROM_EXTERNAL == {0, 1, 3}
BREAKPOINT == {0, 1}
ECALL_FROM_U == {3}
ECALL_FROM_S == {0, 3}
ECALL_FROM_M == {0, 1, 3}

\* the HashMap of written CSRs; an address never written reads 0
Csr_new == <<>>

Csr_read(cs, addr) == IF addr \in DOMAIN cs THEN cs[addr] ELSE {}

Csr_write(cs, addr, value) ==
    [a \in (DOMAIN cs) \cup {addr} |-> IF a = addr THEN value ELSE cs[a]]

(***************************************************************************)
(* CLINT (devices/clint.rs)                                                *)
(***************************************************************************)
CLINT_BASE == {25}
CLINT_SIZE == {16}
MSIP_OFFSET == 0
MTIMECMP_OFFSET == 16384
MTIME_OFFSET == 49144

Clint_new == [mtime |-> {}, mtimecmp |-> {}, msip |-> FALSE]

Clint_read32(cl, offset) ==
    IF offset = MSIP_OFFSET
    THEN [val |-> IF cl.msip THEN {0} ELSE {}, panic |-> FALSE]
    ELSE [val |-> {}, panic |-> TRUE]

Clint_read64(cl, offset) ==
    CASE offset = MTIMECMP_OFFSET -> [val |-> cl.mtimecmp, panic |-> FALSE]
      [] offset = MTIME_OFFSET -> [val |-> cl.mtime, panic |-> FALSE]
      [] OTHER -> [val |-> {}, panic |-> TRUE]

Clint_write32(cl, offset, value) ==
    IF offset = MSIP_OFFSET
    THEN [clint |-> [cl EXCEPT !.msip = (ZeroExt(value, 32) # {})],
          panic |-> FALSE]
    ELSE [clint |-> cl, panic |-> TRUE]

Clint_write64(cl, offset, value) ==
    CASE offset = MTIMECMP_OFFSET ->
           [clint |-> [cl EXCEPT !.mtimecmp = value], panic |-> FALSE]
      [] offset = MTIME_OFFSET ->
           [clint |-> [cl EXCEPT !.mtime = value], panic |-> FALSE]
      [] OTHER -> [clint |-> cl, panic |-> TRUE]

Clint_tick(cl) == [cl EXCEPT !.mtime = Add64(@, {0})]

Clint_check_timer_interrupt(cl) == Geu(cl.mtime, cl.mtimecmp)

Clint_check_software_interrupt(cl) == cl.msip

(***************************************************************************)
(* Memory (devices/memory.rs): the DRAM byte vector, kept as the map of    *)
(* its non-zero bytes, indexed by addr - DRAM_BASE                         *)
(***************************************************************************)
DRAM_BASE == {31}
DRAM_SIZE == {27}

Memory_new == <<>>

\* index = (addr - DRAM_BASE) as usize
DramIndex(addr) == Sub64(addr, DRAM_BASE)

\* indexing the vector beyond its length panics: the n indices from index
\* on are in range when the first and the last are
IndexOk(index, n) ==
    \/ n = 0
    \/ /\ Ltu(index, DRAM_SIZE)
       /\ Ltu(Add64(index, BitsOf(n - 1)), DRAM_SIZE)

ByteAt(mem, idx) ==
    LET k == NatOf(idx) IN IF k \in DOMAIN mem THEN mem[k] ELSE {}

SetByte(mem, idx, b) ==
    LET k == NatOf(idx)
    IN IF b = {} THEN [j \in (DOMAIN mem) \ {k} |-> mem[j]]
       ELSE [j \in (DOMAIN mem) \cup {k} |-> IF j = k THEN b ELSE mem[j]]

\* from_le_bytes of the n bytes at index (all in range): byte i of the
\* result is the byte at index + i
ReadLe(mem, index, n) ==
    LET k == NatOf(index)
    IN UNION {Shl(IF (k + i) \in DOMAIN mem THEN mem[k + i] ELSE {}, 8 * i) :
                i \in 0..(n - 1)}

\* to_le_bytes of value stored in the n bytes at index (all in range): the
\* byte at index + i becomes byte i of value
WriteLe(mem, index, value, n) ==
    IF n = 1 THEN SetByte(mem, index, value \cap (0..7))
    ELSE LET k == NatOf(index)
             touched == k..(k + n - 1)
             set == {j \in touched : Shr(value, 8 * (j - k)) \cap (0..7) # {}}
         IN [j \in ((DOMAIN mem) \ touched) \cup set |->
               IF j \in touched THEN Shr(value, 8 * (j - k)) \cap (0..7)
               ELSE mem[j]]

\* read8/16/32/64: n is the width in bytes
Memory_read(mem, addr, n) ==
    LET index == DramIndex(addr)
    IN IF IndexOk(index, n)
       THEN [val |-> ReadLe(mem, index, n), panic |-> FALSE]
       ELSE [val |-> {}, panic |-> TRUE]

\* variant of Memory_write that stores at the index rounded down to a
\* multiple of the width
Memory_write_aligned(mem, addr, value, n) ==
    LET index == DramIndex(addr) \ BitsOf(n - 1)
    IN [memory |-> WriteLe(mem, index, value, n), panic |-> ~IndexOk(index, n)]

\* write8/16/32/64: the bytes before the first index out of range are stored
Memory_write(mem, addr, value, n) ==
    LET index == DramIndex(addr)
    IN IF IndexOk(index, n)
       THEN [memory |-> WriteLe(mem, index, value, n), panic |-> FALSE]
       ELSE LET ok == {k \in 0..n : IndexOk(index, k)}
                k == CHOOSE x \in ok : \A y \in ok : y <= x
            IN [memory |-> WriteLe(mem, index, value, k), panic |-> TRUE]

(***************************************************************************)
(* Bus (bus.rs): b = [clint, memory, uart, reservations]                   *)
(***************************************************************************)
UART_BASE == {28}
UART_SIZE == {3}

Bus_new ==
    [clint |-> Clint_new, memory |-> Memory_new, uart |-> Uart_new,
     reservations |-> <<>>]

InClint(addr) == Geu(addr, CLINT_BASE) /\ Ltu(addr, Add64(CLINT_BASE, CLINT_SIZE))
InUart(addr) == Geu(addr, UART_BASE) /\ Ltu(addr, Add64(UART_BASE, UART_SIZE))
InDram(addr) == Geu(addr, DRAM_BASE)

ClintOffset(addr) == NatOf(Sub64(addr, CLINT_BASE))
UartOffset(addr) == NatOf(Sub64(addr, UART_BASE))

\* variant of invalidate_reservations that drops every reservation
invalidate_reservations_all(b, addr) == [b EXCEPT !.reservations = <<>>]

\* self.reservations.retain(|_key, value| *value != addr)
invalidate_reservations(b, addr) ==
    [b EXCEPT !.reservations =
        [h \in {x \in DOMAIN b.reservations : b.reservations[x] # addr}
            |-> b.reservations[h]]]

\* variant of reserve that keeps an existing reservation of the hart
reserve_keep_first(b, hart_id, addr) ==
    IF hart_id \in DOMAIN b.reservations THEN b
    ELSE [b EXCEPT !.reservations =
            [h \in (DOMAIN b.reservations) \cup {hart_id}
                |-> IF h = hart_id THEN addr ELSE b.reservations[h]]]

\* self.reservations.insert(hart_id, addr)
reserve(b, hart_id, addr) ==
    [b EXCEPT !.reservations =
        [h \in (DOMAIN b.reservations) \cup {hart_id}
            |-> IF h = hart_id THEN addr ELSE b.reservations[h]]]

check_reservation(b, hart_id, addr) ==
    IF hart_id \in DOMAIN b.reservations
    THEN b.reservations[hart_id] = addr
    ELSE FALSE

\* self.reservations.remove(&hart_id)
clear_reservation(b, hart_id) ==
    [b EXCEPT !.reservations =
        [h \in (DOMAIN b.reservations) \ {hart_id} |-> b.reservations[h]]]

\* the UART arm of every read width: uart.read8(offset) zero-extended
BusUartRead(b, addr) ==
    LET r == Uart_read8(b.uart, UartOffset(addr))
    IN [bus |-> [b EXCEPT !.uart = r.uart], val |-> r.val, panic |-> r.panic]

\* the DRAM arm of every read width
BusMemRead(b, addr, n) ==
    LET r == Memory_read(b.memory, addr, n)
    IN [bus |-> b, val |-> r.val, panic |-> r.panic]

BusPanic(b) == [bus |-> b, val |-> {}, panic |-> TRUE]

Bus_read8(b, addr) ==
    IF InUart(addr) THEN BusUartRead(b, addr)
    ELSE IF InDram(addr) THEN BusMemRead(b, addr, 1)
    ELSE BusPanic(b)

Bus_read16(b, addr) ==
    IF InUart(addr) THEN BusUartRead(b, addr)
    ELSE IF InDram(addr) THEN BusMemRead(b, addr, 2)
    ELSE BusPanic(b)

Bus_read32(b, addr) ==
    IF InClint(addr)
    THEN LET r == Clint_read32(b.clint, ClintOffset(addr))
         IN [bus |-> b, val |-> r.val, panic |-> r.panic]
    ELSE IF InUart(addr) THEN BusUartRead(b, addr)
    ELSE IF InDram(addr) THEN BusMemRead(b, addr, 4)
    ELSE BusPanic(b)

Bus_read64(b, addr) ==
    IF InClint(addr)
    THEN LET r == Clint_read64(b.clint, ClintOffset(addr))
         IN [bus |-> b, val |-> r.val, panic |-> r.panic]
    ELSE IF InUart(addr) THEN BusUartRead(b, addr)
    ELSE IF InDram(addr) THEN BusMemRead(b, addr, 8)
    ELSE BusPanic(b)

\* the UART arm of every write width: uart.write8(offset, value as u8)
BusUartWrite(b, addr, value) ==
    LET r == Uart_write8(b.uart, UartOffset(addr), ZeroExt(value, 8))
    IN [bus |-> [b EXCEPT !.uart = r.uart], panic |-> r.panic]

\* the DRAM arm of every write width
BusMemWrite(b, addr, value, n) ==
    LET r == Memory_write(b.memory, addr, value, n)
    IN [bus |-> [b EXCEPT !.memory = r.memory], panic |-> r.panic]

\* variant of write8 that hands CLINT addresses to the CLINT
Bus_write8_clint(b, addr, value) ==
    LET b1 == invalidate_reservations(b, addr)
    IN IF InClint(addr)
       THEN LET r == Clint_write32(b1.clint, ClintOffset(addr), value)
            IN [bus |-> [b1 EXCEPT !.clint = r.clint], panic |-> r.panic]
       ELSE IF InUart(addr) THEN BusUartWrite(b1, addr, value)
       ELSE IF InDram(addr) THEN BusMemWrite(b1, addr, value, 1)
       ELSE [bus |-> b1, panic |-> TRUE]

Bus_write8(b, addr, value) ==
    LET b1 == invalidate_reservations(b, addr)
    IN IF InUart(addr) THEN BusUartWrite(b1, addr, value)
       ELSE IF InDram(addr) THEN BusMemWrite(b1, addr, value, 1)
       ELSE [bus |-> b1, panic |-> TRUE]

Bus_write16(b, addr, value) ==
    LET b1 == invalidate_reservations(b, addr)
    IN IF InUart(addr) THEN BusUartWrite(b1, addr, value)
       ELSE IF InDram(addr) THEN BusMemWrite(b1, addr, value, 2)
       ELSE [bus |-> b1, panic |-> TRUE]

Bus_write32(b, addr, value) ==
    LET b1 == invalidate_reservations(b, addr)
    IN IF InClint(addr)
       THEN LET r == Clint_write32(b1.clint, ClintOffset(addr), value)
            IN [bus |-> [b1 EXCEPT !.clint = r.clint], panic |-> r.panic]
       ELSE IF InUart(addr) THEN BusUartWrite(b1, addr, value)
       ELSE IF InDram(addr) THEN BusMemWrite(b1, addr, value, 4)
       ELSE [bus |-> b1, panic |-> TRUE]

Bus_write64(b, addr, value) ==
    LET b1 == invalidate_reservations(b, addr)
    IN IF InClint(addr)
       THEN LET r == Clint_write64(b1.clint, ClintOffset(addr), value)
            IN [bus |-> [b1 EXCEPT !.clint = r.clint], panic |-> r.panic]
       ELSE IF InUart(addr) THEN BusUartWrite(b1, addr, value)
       ELSE IF InDram(addr) THEN BusMemWrite(b1, addr, value, 8)
       ELSE [bus |-> b1, panic |-> TRUE]

Bus_tick(b) == [b EXCEPT !.clint = Clint_tick(@)]

Bus_check_timer_interrupt(b) == Clint_check_timer_interrupt(b.clint)

Bus_check_software_interrupt(b) == Clint_check_software_interrupt(b.clint)

Bus_check_uart_interrupt(b) == check_interrupt(b.uart)

Bus_push_uart_input(b, data) == [b EXCEPT !.uart = push_input(@, data)]

Bus_receive_uart_input(b) == [b EXCEPT !.uart = receive_input(@)]

(***************************************************************************)
(* Decoder (decoder.rs): fields as naturals, immediates sign-extended to   *)
(* 64 bits                                                                 *)
(***************************************************************************)
opcode(inst) == Field(inst, 0, 7)
rd(inst) == Field(inst, 7, 5)
funct3(inst) == Field(inst, 12, 3)
rs1(inst) == Field(inst, 15, 5)
rs2(inst) == Field(inst, 20, 5)
funct7(inst) == Field(inst, 25, 7)
csr_addr(inst) == Field(inst, 20, 12)

imm_i(inst) == SignExt(Shr(inst, 20), 12)

imm_s(inst) ==
    SignExt(Shl(BitsOf(Field(inst, 25, 7)), 5) \cup BitsOf(Field(inst, 7, 5)), 12)

imm_b(inst) ==
    SignExt(Shl(BitsOf(Field(inst, 31, 1)), 12) \cup Shl(BitsOf(Field(inst, 7, 1)), 11)
              \cup Shl(BitsOf(Field(inst, 25, 6)), 5)
              \cup Shl(BitsOf(Field(inst, 8, 4)), 1), 13)

imm_u(inst) == SignExt(inst \ (0..11), 32)

imm_j(inst) ==
    SignExt(Shl(BitsOf(Field(inst, 31, 1)), 20) \cup Shl(BitsOf(Field(inst, 12, 8)), 12)
              \cup Shl(BitsOf(Field(inst, 20, 1)), 11)
              \cup Shl(BitsOf(Field(inst, 21, 10)), 1), 21)

(***************************************************************************)
(* CPU (cpu/mod.rs): c = [regs, csr, pc, mode, bus, halted, fatal]         *)
(***************************************************************************)
OP_IMM == 19
OP_IMM_32 == 27
OP == 51
OP_32 == 59
LOAD == 3
STORE == 35
BRANCH == 99
JAL == 111
JALR == 103
LUI == 55
AUIPC == 23
SYSTEM == 115

\* PrivilegeMode as u64
ModeCode(mo) ==
    CASE mo = "User" -> 0 [] mo = "Supervisor" -> 1 [] mo = "Machine" -> 3

Cpu_new ==
    [regs |-> [i \in 0..31 |-> {}],
     csr |-> Csr_write(Csr_write(Csr_new, MISA, {8, 18, 20, 63}), MHARTID, {}),
     pc |-> DRAM_BASE, mode |-> "Machine", bus |-> Bus_new, halted |-> FALSE,
     fatal |-> FALSE]

read_reg(c, index) == c.regs[index]

\* variant of write_reg without the guard on index 0
write_reg_unguarded(c, index, value) == [c EXCEPT !.regs[index] = value]

write_reg(c, index, value) ==
    IF index # 0 THEN [c EXCEPT !.regs[index] = value] ELSE c

Panic(c) == [c EXCEPT !.fatal = TRUE]

\* returns the word fetched, the CPU after the bus read, and whether it panicked
fetch(c) ==
    LET r == Bus_read32(c.bus, c.pc)
    IN [cpu |-> [c EXCEPT !.bus = r.bus], inst |-> r.val, panic |-> r.panic]

RECURSIVE WriteBytes(_, _, _, _)
\* bus.write8(vaddr + i, byte(i)) for i = lo .. hi - 1, in order; a write
\* that panics ends the loop
WriteBytes(c, vaddr, lo, hi) ==
    IF c.fatal \/ lo >= hi.n THEN c
    ELSE CHOOSE x \in
           {WriteBytes([c EXCEPT !.bus = w.bus, !.fatal = w.panic], vaddr, lo + 1, hi) :
              w \in {Bus_write8(c.bus, Add64(vaddr, BitsOf(lo)),
                                IF lo < Len(hi.data) THEN hi.data[lo + 1] ELSE {})}} :
           TRUE

\* variant of load_segment that writes the data bytes and no zeros
load_segment_data_only(c, segment) ==
    WriteBytes(c, segment.vaddr, 0,
               [n |-> Len(segment.data), data |-> segment.data])

\* the body of the loop of load_segments for one segment: the data bytes,
\* then zeros up to memsz
load_segment(c, segment) ==
    CHOOSE x \in
      {WriteBytes(c1, segment.vaddr, Len(segment.data),
                  [n |-> segment.memsz, data |-> <<>>]) :
         c1 \in {WriteBytes(c, segment.vaddr, 0,
                            [n |-> Len(segment.data), data |-> segment.data])}} :
      TRUE

RECURSIVE load_segments_from(_, _, _)
load_segments_from(c, segments, i) ==
    IF c.fatal \/ i > Len(segments) THEN c
    ELSE CHOOSE x \in
           {load_segments_from(c1, segments, i + 1) :
              c1 \in {load_segment(c, segments[i])}} : TRUE

\* Cpu::load_segments: every segment in order, then PC = entry
load_segments(c, segments, e) ==
    CHOOSE x \in {IF c1.fatal THEN c1 ELSE [c1 EXCEPT !.pc = e] :
                    c1 \in {load_segments_from(c, segments, 1)}} : TRUE

RECURSIVE load_program(_, _, _)
\* writes program[i..] at DRAM_BASE + 4 * (i - 1) with bus.write32
load_program(c, program, i) ==
    IF i > Len(program) \/ c.fatal THEN c
    ELSE LET w == Bus_write32(c.bus, Add64(DRAM_BASE, BitsOf(4 * (i - 1))),
                              program[i])
         IN load_program([c EXCEPT !.bus = w.bus, !.fatal = w.panic],
                         program, i + 1)

\* variant of trap that saves the PC of the next instruction in MEPC
trap_mepc_next(c, cause, tval) ==
    LET m == Csr_read(c.csr, MSTATUS)
        stash == (IF (m \cap MSTATUS_MIE) # {} THEN MSTATUS_MPIE ELSE {})
                   \cup Shl(BitsOf(ModeCode(c.mode)), 11)
        m1 == (m \ (MSTATUS_MIE \cup MSTATUS_MPIE \cup MSTATUS_MPP)) \cup stash
    IN [c EXCEPT !.csr = Csr_write(Csr_write(Csr_write(Csr_write(c.csr,
                               MEPC, Add64(c.pc, {2})), MCAUSE, cause),
                               MTVAL, tval), MSTATUS, m1),
                 !.mode = "Machine",
                 !.pc = Csr_read(c.csr, MTVEC) \ {0, 1}]

\* variant of trap that clears MIE but does not save MIE and the mode in
\* MPIE and MPP
trap_no_stash(c, cause, tval) ==
    [c EXCEPT !.csr = Csr_write(Csr_write(Csr_write(Csr_write(c.csr,
                            MEPC, c.pc), MCAUSE, cause), MTVAL, tval),
                            MSTATUS, Csr_read(c.csr, MSTATUS) \ MSTATUS_MIE),
              !.mode = "Machine",
              !.pc = Csr_read(c.csr, MTVEC) \ {0, 1}]

\* variant of trap that indexes the vector table with the cause of an
\* exception as well
trap_vector_exceptions(c, cause, tval) ==
    LET m == Csr_read(c.csr, MSTATUS)
        stash == (IF (m \cap MSTATUS_MIE) # {} THEN MSTATUS_MPIE ELSE {})
                   \cup Shl(BitsOf(ModeCode(c.mode)), 11)
        m1 == (m \ (MSTATUS_MIE \cup MSTATUS_MPIE \cup MSTATUS_MPP)) \cup stash
        mtvec == Csr_read(c.csr, MTVEC)
    IN [c EXCEPT !.csr = Csr_write(Csr_write(Csr_write(Csr_write(c.csr,
                               MEPC, c.pc), MCAUSE, cause),
                               MTVAL, tval), MSTATUS, m1),
                 !.mode = "Machine",
                 !.pc = IF mtvec \cap {0, 1} = {} THEN mtvec \ {0, 1}
                        ELSE Add64(mtvec \ {0, 1}, Shl(cause \cap (0..9), 2))]

\* variant of trap that saves MIE in MPIE and leaves MIE as it is
trap_keep_mie(c, cause, tval) ==
    LET is_interrupt == (cause \cap INTERRUPT_BIT) # {}
        csr1 == Csr_write(Csr_write(Csr_write(c.csr, MEPC, c.pc),
                                    MCAUSE, cause), MTVAL, tval)
        mstatus0 == Csr_read(csr1, MSTATUS)
        mstatus1 == IF (mstatus0 \cap MSTATUS_MIE) # {}
                    THEN mstatus0 \cup MSTATUS_MPIE
                    ELSE mstatus0 \ MSTATUS_MPIE
        mstatus4 == (mstatus1 \ MSTATUS_MPP) \cup Shl(BitsOf(ModeCode(c.mode)), 11)
        csr2 == Csr_write(csr1, MSTATUS, mstatus4)
        mtvec == Csr_read(csr2, MTVEC)
        base == mtvec \ {0, 1}
        newpc == IF mtvec \cap {0, 1} = {} THEN base
                 ELSE IF is_interrupt
                      THEN Add64(base, Shl(cause \cap (0..9), 2))
                      ELSE base
    IN [c EXCEPT !.csr = csr2, !.mode = "Machine", !.pc = newpc]

trap(c, cause, tval) ==
    LET is_interrupt == (cause \cap INTERRUPT_BIT) # {}
        csr1 == Csr_write(Csr_write(Csr_write(c.csr, MEPC, c.pc),
                                    MCAUSE, cause), MTVAL, tval)
        mstatus0 == Csr_read(csr1, MSTATUS)
        mie == (mstatus0 \cap MSTATUS_MIE) # {}
        mstatus1 == IF mie THEN mstatus0 \cup MSTATUS_MPIE
                    ELSE mstatus0 \ MSTATUS_MPIE
        mstatus2 == mstatus1 \ MSTATUS_MIE
        mstatus3 == mstatus2 \ MSTATUS_MPP
        mstatus4 == mstatus3 \cup Shl(BitsOf(ModeCode(c.mode)), 11)
        csr2 == Csr_write(csr1, MSTATUS, mstatus4)
        mtvec == Csr_read(csr2, MTVEC)
        tmode == mtvec \cap {0, 1}
        base == mtvec \ {0, 1}
        newpc == IF tmode = {} THEN base
                 ELSE IF is_interrupt
                      THEN Add64(base, Shl(cause \cap (0..9), 2))
                      ELSE base
    IN [c EXCEPT !.csr = csr2, !.mode = "Machine", !.pc = newpc]

\* u64 >> n on a signed operand (arithmetic shift)
Sra(a, n) == Shr(a, n) \cup (IF 63 \in a THEN (64 - n)..63 ELSE {})

BoolBits(p) == IF p THEN {0} ELSE {}

execute_op_imm(c, inst) ==
    LET f3 == funct3(inst)
        d == rd(inst)
        rs1_val == read_reg(c, rs1(inst))
        imm == imm_i(inst)
        shamt == NatOf(imm \cap (0..5))
        f7 == Field(imm, 5, 7)
    IN CASE f3 = 0 -> write_reg(c, d, Add64(rs1_val, imm))
         [] f3 = 1 -> write_reg(c, d, Shl(rs1_val, shamt))
         [] f3 = 2 -> write_reg(c, d, BoolBits(Lts(rs1_val, imm)))
         [] f3 = 3 -> write_reg(c, d, BoolBits(Ltu(rs1_val, imm)))
         [] f3 = 4 -> write_reg(c, d, (rs1_val \cup imm) \ (rs1_val \cap imm))
         [] f3 = 5 ->
              CASE f7 = 0 -> write_reg(c, d, Shr(rs1_val, shamt))
                [] f7 = 32 -> write_reg(c, d, Sra(rs1_val, shamt))
                [] OTHER -> Panic(c)
         [] f3 = 6 -> write_reg(c, d, rs1_val \cup imm)
         [] f3 = 7 -> write_reg(c, d, rs1_val \cap imm)
         [] OTHER -> Panic(c)

\* the OP instructions: funct7 0x00 and 0x20, and 0x01 (multiply and divide)
execute_op(c, inst) ==
    LET f3 == funct3(inst)
        f7 == funct7(inst)
        d == rd(inst)
        rs1_val == read_reg(c, rs1(inst))
        rs2_val == read_reg(c, rs2(inst))
        shamt == NatOf(rs2_val \cap (0..5))
    IN CASE f3 = 0 /\ f7 = 0 -> write_reg(c, d, Add64(rs1_val, rs2_val))
         [] f3 = 0 /\ f7 = 32 -> write_reg(c, d, Sub64(rs1_val, rs2_val))
         [] f3 = 1 /\ f7 = 0 -> write_reg(c, d, Shl(rs1_val, shamt))
         [] f3 = 2 /\ f7 = 0 -> write_reg(c, d, BoolBits(Lts(rs1_val, rs2_val)))
         [] f3 = 3 /\ f7 = 0 -> write_reg(c, d, BoolBits(Ltu(rs1_val, rs2_val)))
         [] f3 = 4 /\ f7 = 0 ->
              write_reg(c, d, (rs1_val \cup rs2_val) \ (rs1_val \cap rs2_val))
         [] f3 = 5 /\ f7 = 0 -> write_reg(c, d, Shr(rs1_val, shamt))
         [] f3 = 5 /\ f7 = 32 -> write_reg(c, d, Sra(rs1_val, shamt))
         [] f3 = 6 /\ f7 = 0 -> write_reg(c, d, rs1_val \cup rs2_val)
         [] f3 = 7 /\ f7 = 0 -> write_reg(c, d, rs1_val \cap rs2_val)
         [] f3 = 0 /\ f7 = 1 -> write_reg(c, d, Mul64(rs1_val, rs2_val))
         [] f3 = 1 /\ f7 = 1 ->
              write_reg(c, d, High64(MulW(Sx128(rs1_val), Sx128(rs2_val))))
         [] f3 = 2 /\ f7 = 1 ->
              write_reg(c, d, High64(MulW(Sx128(rs1_val), rs2_val)))
         [] f3 = 3 /\ f7 = 1 -> write_reg(c, d, High64(MulW(rs1_val, rs2_val)))
         [] f3 = 4 /\ f7 = 1 ->
              write_reg(c, d, IF rs2_val = {} THEN 0..63
                              ELSE Divs64(rs1_val, rs2_val))
         [] f3 = 5 /\ f7 = 1 ->
              write_reg(c, d, IF rs2_val = {} THEN 0..63
                              ELSE Divu64(rs1_val, rs2_val))
         [] f3 = 6 /\ f7 = 1 ->
              write_reg(c, d, IF rs2_val = {} THEN rs1_val
                              ELSE Rems64(rs1_val, rs2_val))
         [] f3 = 7 /\ f7 = 1 ->
              write_reg(c, d, IF rs2_val = {} THEN rs1_val
                              ELSE Remu64(rs1_val, rs2_val))
         [] OTHER -> Panic(c)

\* ADDIW, SLLIW, SRLIW, SRAIW.  A shift of a 32-bit value by 32 or more is
\* taken modulo 32 here, as a build without overflow checks does (see
\* shift_overflow for the other build)
execute_op_imm_32(c, inst) ==
    LET f3 == funct3(inst)
        d == rd(inst)
        rs1_val == read_reg(c, rs1(inst))
        imm == imm_i(inst)
        shamt == NatOf(imm \cap (0..5))
        f7 == Field(imm, 5, 7)
    IN CASE f3 = 0 -> write_reg(c, d, SignExt(Add64(rs1_val, imm), 32))
         [] f3 = 1 ->
              write_reg(c, d, SignExt(Shl(ZeroExt(rs1_val, 32), shamt % 32), 32))
         [] f3 = 5 ->
              CASE f7 = 0 ->
                     write_reg(c, d, Shr(ZeroExt(rs1_val, 32), shamt % 32))
                [] f7 = 32 ->
                     write_reg(c, d, Sra(SignExt(rs1_val, 32), shamt % 32))
                [] OTHER -> Panic(c)
         [] OTHER -> Panic(c)

\* ADDW, SUBW, SLLW, SRLW, SRAW, MULW, DIVW, DIVUW, REMW, REMUW.  The divide
\* arms test the whole of rs2 for zero and then divide the low 32 bits;
\* wrapping_div and wrapping_rem panic on a zero divisor
execute_op_32(c, inst) ==
    LET f3 == funct3(inst)
        f7 == funct7(inst)
        d == rd(inst)
        rs1_val == read_reg(c, rs1(inst))
        rs2_val == read_reg(c, rs2(inst))
        shamt == NatOf(rs2_val \cap (0..5))
        a32 == SignExt(rs1_val, 32)
        b32 == SignExt(rs2_val, 32)
        au32 == ZeroExt(rs1_val, 32)
        bu32 == ZeroExt(rs2_val, 32)
    IN CASE f3 = 0 /\ f7 = 0 ->
              write_reg(c, d, SignExt(Add64(rs1_val, rs2_val), 32))
         [] f3 = 0 /\ f7 = 1 ->
              write_reg(c, d, SignExt(Mul64(rs1_val, rs2_val), 32))
         [] f3 = 0 /\ f7 = 32 ->
              write_reg(c, d, SignExt(Sub64(rs1_val, rs2_val), 32))
         [] f3 = 1 /\ f7 = 0 ->
              write_reg(c, d, SignExt(Shl(au32, shamt % 32), 32))
         [] f3 = 4 /\ f7 = 1 ->
              IF rs2_val = {} THEN write_reg(c, d, 0..63)
              ELSE IF bu32 = {} THEN Panic(c)
              ELSE write_reg(c, d, SignExt(Divs64(a32, b32), 32))
         [] f3 = 5 /\ f7 = 0 -> write_reg(c, d, Shr(au32, shamt % 32))
         [] f3 = 5 /\ f7 = 1 ->
              IF rs2_val = {} THEN write_reg(c, d, 0..63)
              ELSE IF bu32 = {} THEN Panic(c)
              ELSE write_reg(c, d, SignExt(Divu64(au32, bu32), 32))
         [] f3 = 5 /\ f7 = 32 -> write_reg(c, d, Sra(a32, shamt % 32))
         [] f3 = 6 /\ f7 = 1 ->
              IF rs2_val = {} THEN write_reg(c, d, a32)
              ELSE IF bu32 = {} THEN Panic(c)
              ELSE write_reg(c, d, SignExt(Rems64(a32, b32), 32))
         [] f3 = 7 /\ f7 = 1 ->
              IF rs2_val = {} THEN write_reg(c, d, a32)
              ELSE IF bu32 = {} THEN Panic(c)
              ELSE write_reg(c, d, SignExt(Remu64(au32, bu32), 32))
         [] OTHER -> Panic(c)

\* SLLIW, or SLLW, SRLW, SRAW, whose shift amount (6 bits of the immediate
\* or of rs2) is 32 or more
ShiftsBy32(rg, inst) ==
    \/ /\ opcode(inst) = OP_IMM_32
       /\ funct3(inst) = 1
       /\ 5 \in imm_i(inst)
    \/ /\ opcode(inst) = OP_32
       /\ \/ funct3(inst) = 1 /\ funct7(inst) = 0
          \/ funct3(inst) = 5 /\ funct7(inst) \in {0, 32}
       /\ 5 \in rg[rs2(inst)]

execute_load(c, inst) ==
    LET f3 == funct3(inst)
        d == rd(inst)
        addr == Add64(read_reg(c, rs1(inst)), imm_i(inst))
        r == CASE f3 \in {0, 4} -> Bus_read8(c.bus, addr)
               [] f3 \in {1, 5} -> Bus_read16(c.bus, addr)
               [] f3 \in {2, 6} -> Bus_read32(c.bus, addr)
               [] f3 = 3 -> Bus_read64(c.bus, addr)
               [] OTHER -> BusPanic(c.bus)
        val == CASE f3 = 0 -> SignExt(r.val, 8)
                 [] f3 = 1 -> SignExt(r.val, 16)
                 [] f3 = 2 -> SignExt(r.val, 32)
                 [] OTHER -> r.val
        c1 == [c EXCEPT !.bus = r.bus]
    IN IF r.panic THEN Panic(c1) ELSE write_reg(c1, d, val)

execute_store(c, inst) ==
    LET f3 == funct3(inst)
        rs2_val == read_reg(c, rs2(inst))
        addr == Add64(read_reg(c, rs1(inst)), imm_s(inst))
        w == CASE f3 = 0 -> Bus_write8(c.bus, addr, ZeroExt(rs2_val, 8))
               [] f3 = 1 -> Bus_write16(c.bus, addr, ZeroExt(rs2_val, 16))
               [] f3 = 2 -> Bus_write32(c.bus, addr, ZeroExt(rs2_val, 32))
               [] f3 = 3 -> Bus_write64(c.bus, addr, rs2_val)
               [] OTHER -> [bus |-> c.bus, panic |-> TRUE]
        c1 == [c EXCEPT !.bus = w.bus]
    IN IF w.panic THEN Panic(c1) ELSE c1

\* returns the CPU after the branch and whether it was taken
execute_branch(c, inst) ==
    LET f3 == funct3(inst)
        rs1_val == read_reg(c, rs1(inst))
        rs2_val == read_reg(c, rs2(inst))
        taken == CASE f3 = 0 -> rs1_val = rs2_val
                   [] f3 = 1 -> rs1_val # rs2_val
                   [] f3 = 4 -> Lts(rs1_val, rs2_val)
                   [] f3 = 5 -> ~Lts(rs1_val, rs2_val)
                   [] f3 = 6 -> Ltu(rs1_val, rs2_val)
                   [] f3 = 7 -> ~Ltu(rs1_val, rs2_val)
                   [] OTHER -> FALSE
    IN IF f3 \in {2, 3} THEN [cpu |-> Panic(c), taken |-> FALSE]
       ELSE IF taken
       THEN [cpu |-> [c EXCEPT !.pc = Add64(c.pc, imm_b(inst))], taken |-> TRUE]
       ELSE [cpu |-> c, taken |-> FALSE]

execute_jal(c, inst) ==
    LET c1 == write_reg(c, rd(inst), Add64(c.pc, {2}))
    IN [c1 EXCEPT !.pc = Add64(c.pc, imm_j(inst))]

\* variant of JALR that links before it reads rs1
execute_jalr_link_first(c, inst) ==
    LET c1 == write_reg(c, rd(inst), Add64(c.pc, {2}))
    IN [c1 EXCEPT !.pc = Add64(read_reg(c1, rs1(inst)), imm_i(inst)) \ {0}]

execute_jalr(c, inst) ==
    LET rs1_val == read_reg(c, rs1(inst))
        c1 == write_reg(c, rd(inst), Add64(c.pc, {2}))
    IN [c1 EXCEPT !.pc = Add64(rs1_val, imm_i(inst)) \ {0}]

execute_lui(c, inst) == write_reg(c, rd(inst), imm_u(inst))

execute_auipc(c, inst) == write_reg(c, rd(inst), Add64(c.pc, imm_u(inst)))

\* variant of MRET that restores the PC only
execute_mret_pc_only(c) == [c EXCEPT !.pc = Csr_read(c.csr, MEPC)]

\* variant of MRET that restores PC and mode and leaves MIE as it is
execute_mret_keep_mie(c) ==
    LET c1 == [c EXCEPT !.pc = Csr_read(c.csr, MEPC)]
        mstatus2 == Csr_read(c1.csr, MSTATUS) \cup MSTATUS_MPIE
        mpp == NatOf(Shr(mstatus2 \cap MSTATUS_MPP, 11))
    IN IF mpp \notin {0, 1, 3} THEN Panic(c1)
       ELSE [c1 EXCEPT
               !.mode = CASE mpp = 0 -> "User" [] mpp = 1 -> "Supervisor"
                          [] mpp = 3 -> "Machine",
               !.csr = Csr_write(c1.csr, MSTATUS, mstatus2 \ MSTATUS_MPP)]

\* MRET: PC from MEPC, MIE from MPIE, MPIE set, mode from MPP, MPP cleared
execute_mret(c) ==
    LET c1 == [c EXCEPT !.pc = Csr_read(c.csr, MEPC)]
        mstatus0 == Csr_read(c1.csr, MSTATUS)
        mpie == (mstatus0 \cap MSTATUS_MPIE) # {}
        mstatus1 == IF mpie THEN mstatus0 \cup MSTATUS_MIE
                    ELSE mstatus0 \ MSTATUS_MIE
        mstatus2 == mstatus1 \cup MSTATUS_MPIE
        mpp == NatOf(Shr(mstatus2 \cap MSTATUS_MPP, 11))
    IN IF mpp \notin {0, 1, 3} THEN Panic(c1)
       ELSE [c1 EXCEPT
               !.mode = CASE mpp = 0 -> "User" [] mpp = 1 -> "Supervisor"
                          [] mpp = 3 -> "Machine",
               !.csr = Csr_write(c1.csr, MSTATUS, mstatus2 \ MSTATUS_MPP)]

\* variant of SRET that leaves SIE as it was
execute_sret_keep_sie(c) ==
    LET sstatus0 == Csr_read(c.csr, SSTATUS)
    IN [c EXCEPT
          !.pc = Csr_read(c.csr, SEPC),
          !.mode = IF (sstatus0 \cap SSTATUS_SPP) # {} THEN "Supervisor" ELSE "User",
          !.csr = Csr_write(c.csr, SSTATUS,
                            (sstatus0 \cup SSTATUS_SPIE) \ SSTATUS_SPP)]

\* SRET: PC from SEPC, SIE from SPIE, SPIE set, mode from SPP, SPP cleared
execute_sret(c) ==
    LET c1 == [c EXCEPT !.pc = Csr_read(c.csr, SEPC)]
        sstatus0 == Csr_read(c1.csr, SSTATUS)
        spie == (sstatus0 \cap SSTATUS_SPIE) # {}
        sstatus1 == IF spie THEN sstatus0 \cup SSTATUS_SIE
                    ELSE sstatus0 \ SSTATUS_SIE
        sstatus2 == sstatus1 \cup SSTATUS_SPIE
        spp == (sstatus2 \cap SSTATUS_SPP) # {}
    IN [c1 EXCEPT
          !.mode = IF spp THEN "Supervisor" ELSE "User",
          !.csr = Csr_write(c1.csr, SSTATUS, sstatus2 \ SSTATUS_SPP)]

\* variant of the CSR instructions whose CSRRW sets the bits of rs1 instead
\* of writing rs1
execute_csr_rw_sets(c, inst) ==
    LET f3 == funct3(inst)
        r1 == rs1(inst)
        rs1_val == read_reg(c, r1)
        addr == csr_addr(inst)
        old == Csr_read(c.csr, addr)
        zimm == BitsOf(r1)
        csr1 ==
          CASE f3 \in {1, 2} -> Csr_write(c.csr, addr, old \cup rs1_val)
            [] f3 = 3 -> IF rs1_val # {} THEN Csr_write(c.csr, addr, old \ rs1_val)
                         ELSE c.csr
            [] f3 = 5 -> Csr_write(c.csr, addr, zimm)
            [] f3 = 6 -> IF r1 # 0 THEN Csr_write(c.csr, addr, old \cup zimm)
                         ELSE c.csr
            [] f3 = 7 -> IF r1 # 0 THEN Csr_write(c.csr, addr, old \ zimm)
                         ELSE c.csr
    IN write_reg([c EXCEPT !.csr = csr1], rd(inst), old)

\* variant of the CSR instructions that writes rd before it reads rs1
execute_csr_rd_first(c, inst) ==
    LET f3 == funct3(inst)
        r1 == rs1(inst)
        addr == csr_addr(inst)
        old == Csr_read(c.csr, addr)
        c1 == write_reg(c, rd(inst), old)
        rs1_val == read_reg(c1, r1)
        zimm == BitsOf(r1)
        csr1 ==
          CASE f3 = 1 -> Csr_write(c.csr, addr, rs1_val)
            [] f3 = 2 -> IF rs1_val # {} THEN Csr_write(c.csr, addr, old \cup rs1_val)
                         ELSE c.csr
            [] f3 = 3 -> IF rs1_val # {} THEN Csr_write(c.csr, addr, old \ rs1_val)
                         ELSE c.csr
            [] f3 = 5 -> Csr_write(c.csr, addr, zimm)
            [] f3 = 6 -> IF r1 # 0 THEN Csr_write(c.csr, addr, old \cup zimm)
                         ELSE c.csr
            [] f3 = 7 -> IF r1 # 0 THEN Csr_write(c.csr, addr, old \ zimm)
                         ELSE c.csr
    IN [c1 EXCEPT !.csr = csr1]

\* the six CSR instructions: f3 in {1, 2, 3, 5, 6, 7}
execute_csr(c, inst) ==
    LET f3 == funct3(inst)
        d == rd(inst)
        r1 == rs1(inst)
        rs1_val == read_reg(c, r1)
        addr == csr_addr(inst)
        old == Csr_read(c.csr, addr)
        zimm == BitsOf(r1)
        csr1 ==
          CASE f3 = 1 -> Csr_write(c.csr, addr, rs1_val)
            [] f3 = 2 -> IF rs1_val # {} THEN Csr_write(c.csr, addr, old \cup rs1_val)
                         ELSE c.csr
            [] f3 = 3 -> IF rs1_val # {} THEN Csr_write(c.csr, addr, old \ rs1_val)
                         ELSE c.csr
            [] f3 = 5 -> Csr_write(c.csr, addr, zimm)
            [] f3 = 6 -> IF r1 # 0 THEN Csr_write(c.csr, addr, old \cup zimm)
                         ELSE c.csr
            [] f3 = 7 -> IF r1 # 0 THEN Csr_write(c.csr, addr, old \ zimm)
                         ELSE c.csr
    IN write_reg([c EXCEPT !.csr = csr1], d, old)

\* variant of execute_system whose ECALL reports the machine-mode cause from
\* every mode
execute_system_ecall_m(c, inst) ==
    LET f3 == funct3(inst)
        f7 == funct7(inst)
        r2 == rs2(inst)
    IN CASE f3 = 0 ->
              CASE f7 = 0 /\ r2 = 0 ->
                     [cpu |-> trap(c, ECALL_FROM_M, {}), taken |-> TRUE]
                [] f7 = 0 /\ r2 = 1 ->
                     [cpu |-> trap(c, BREAKPOINT, {}), taken |-> TRUE]
                [] f7 = 24 /\ r2 = 2 -> [cpu |-> execute_mret(c), taken |-> TRUE]
                [] f7 = 8 /\ r2 = 2 -> [cpu |-> execute_sret(c), taken |-> TRUE]
                [] OTHER -> [cpu |-> Panic(c), taken |-> FALSE]
         [] f3 \in {1, 2, 3, 5, 6, 7} ->
              [cpu |-> execute_csr(c, inst), taken |-> FALSE]
         [] OTHER -> [cpu |-> Panic(c), taken |-> FALSE]

\* returns the CPU after the instruction and whether it set PC itself
execute_system(c, inst) ==
    LET f3 == funct3(inst)
        f7 == funct7(inst)
        r2 == rs2(inst)
    IN CASE f3 = 0 ->
              CASE f7 = 0 /\ r2 = 0 ->
                     [cpu |-> CASE c.mode = "Machine" -> trap(c, ECALL_FROM_M, {})
                                [] c.mode = "Supervisor" -> trap(c, ECALL_FROM_S, {})
                                [] c.mode = "User" -> trap(c, ECALL_FROM_U, {}),
                      taken |-> TRUE]
                [] f7 = 0 /\ r2 = 1 ->
                     [cpu |-> trap(c, BREAKPOINT, {}), taken |-> TRUE]
                [] f7 = 24 /\ r2 = 2 -> [cpu |-> execute_mret(c), taken |-> TRUE]
                [] f7 = 8 /\ r2 = 2 -> [cpu |-> execute_sret(c), taken |-> TRUE]
                [] OTHER -> [cpu |-> Panic(c), taken |-> FALSE]
         [] f3 \in {1, 2, 3, 5, 6, 7} ->
              [cpu |-> execute_csr(c, inst), taken |-> FALSE]
         [] OTHER -> [cpu |-> Panic(c), taken |-> FALSE]

\* variant of Mirror that never clears a bit
Mirror_sticky(mip, bit, line) == IF line THEN mip \cup bit ELSE mip

\* MIP with bit set or cleared to mirror a device line
Mirror(mip, bit, line) == IF line THEN mip \cup bit ELSE mip \ bit

\* the first part of check_pending_interrupts: MIP mirrors the three lines
refresh_mip(c) ==
    LET mip0 == Csr_read(c.csr, MIP)
        mip1 == Mirror(mip0, MIP_MTIP, Bus_check_timer_interrupt(c.bus))
        mip2 == Mirror(mip1, MIP_MSIP, Bus_check_software_interrupt(c.bus))
        mip3 == Mirror(mip2, MIP_MEIP, Bus_check_uart_interrupt(c.bus))
    IN [c EXCEPT !.csr = Csr_write(c.csr, MIP, mip3)]

\* variant of pending_trap that looks at the timer before the software
\* interrupt
pending_trap_timer_first(c) ==
    LET mip == Csr_read(c.csr, MIP)
        mie == Csr_read(c.csr, MIE)
    IN IF (mip \cap MIP_MTIP) # {} /\ (mie \cap MIE_MTIE) # {}
       THEN [cpu |-> trap(c, INTERRUPT_BIT \cup INTERRUPT_FROM_TIMER, {}),
             taken |-> TRUE]
       ELSE IF (mip \cap MIP_MSIP) # {} /\ (mie \cap MIE_MSIE) # {}
       THEN [cpu |-> trap(c, INTERRUPT_BIT \cup INTERRUPT_FROM_SOFTWARE, {}),
             taken |-> TRUE]
       ELSE IF (mip \cap MIP_MEIP) # {} /\ (mie \cap MIE_MEIE) # {}
       THEN [cpu |-> trap(c, INTERRUPT_BIT \cup INTERRUPT_FROM_EXTERNAL, {}),
             taken |-> TRUE]
       ELSE [cpu |-> c, taken |-> FALSE]

\* the last part of check_pending_interrupts: the first source, in the order
\* software, timer, external, that is pending in MIP and enabled in MIE traps
pending_trap(c) ==
    LET mip == Csr_read(c.csr, MIP)
        mie == Csr_read(c.csr, MIE)
    IN IF (mip \cap MIP_MSIP) # {} /\ (mie \cap MIE_MSIE) # {}
       THEN [cpu |-> trap(c, INTERRUPT_BIT \cup INTERRUPT_FROM_SOFTWARE, {}),
             taken |-> TRUE]
       ELSE IF (mip \cap MIP_MTIP) # {} /\ (mie \cap MIE_MTIE) # {}
       THEN [cpu |-> trap(c, INTERRUPT_BIT \cup INTERRUPT_FROM_TIMER, {}),
             taken |-> TRUE]
       ELSE IF (mip \cap MIP_MEIP) # {} /\ (mie \cap MIE_MEIE) # {}
       THEN [cpu |-> trap(c, INTERRUPT_BIT \cup INTERRUPT_FROM_EXTERNAL, {}),
             taken |-> TRUE]
       ELSE [cpu |-> c, taken |-> FALSE]

\* variant of check_pending_interrupts that does not look at MSTATUS.MIE
check_pending_interrupts_ungated(c) ==
    CHOOSE r \in {pending_trap(c1) : c1 \in {refresh_mip(c)}} : TRUE

\* returns the CPU after the MIP refresh and a possible trap, and whether an
\* interrupt was taken
check_pending_interrupts(c) ==
    CHOOSE r \in {IF (Csr_read(c1.csr, MSTATUS) \cap MSTATUS_MIE) = {}
                  THEN [cpu |-> c1, taken |-> FALSE]
                  ELSE pending_trap(c1) : c1 \in {refresh_mip(c)}} : TRUE

\* variant of the instruction body that takes an illegal-instruction trap
\* on an opcode it does not know
execute_trapping(c, inst) ==
    LET op == opcode(inst)
        Advance(x) == IF x.fatal THEN x ELSE [x EXCEPT !.pc = Add64(x.pc, {2})]
    IN CASE op = OP_IMM -> Advance(execute_op_imm(c, inst))
         [] op = OP_IMM_32 -> Advance(execute_op_imm_32(c, inst))
         [] op = OP -> Advance(execute_op(c, inst))
         [] op = OP_32 -> Advance(execute_op_32(c, inst))
         [] op = LOAD -> Advance(execute_load(c, inst))
         [] op = STORE -> Advance(execute_store(c, inst))
         [] op = BRANCH ->
              LET r == execute_branch(c, inst)
              IN IF r.taken THEN r.cpu ELSE Advance(r.cpu)
         [] op = JAL -> execute_jal(c, inst)
         [] op = JALR -> execute_jalr(c, inst)
         [] op = LUI -> Advance(execute_lui(c, inst))
         [] op = AUIPC -> Advance(execute_auipc(c, inst))
         [] op = SYSTEM ->
              LET r == execute_system(c, inst)
              IN IF r.taken THEN r.cpu ELSE Advance(r.cpu)
         [] OTHER -> trap(c, {1}, inst)

\* the instruction body of a step: decode, execute, advance PC
execute(c, inst) ==
    LET op == opcode(inst)
        Advance(x) == IF x.fatal THEN x ELSE [x EXCEPT !.pc = Add64(x.pc, {2})]
    IN CASE op = OP_IMM -> Advance(execute_op_imm(c, inst))
         [] op = OP_IMM_32 -> Advance(execute_op_imm_32(c, inst))
         [] op = OP -> Advance(execute_op(c, inst))
         [] op = OP_32 -> Advance(execute_op_32(c, inst))
         [] op = LOAD -> Advance(execute_load(c, inst))
         [] op = STORE -> Advance(execute_store(c, inst))
         [] op = BRANCH ->
              LET r == execute_branch(c, inst)
              IN IF r.taken THEN r.cpu ELSE Advance(r.cpu)
         [] op = JAL -> execute_jal(c, inst)
         [] op = JALR -> execute_jalr(c, inst)
         [] op = LUI -> Advance(execute_lui(c, inst))
         [] op = AUIPC -> Advance(execute_auipc(c, inst))
         [] op = SYSTEM ->
              LET r == execute_system(c, inst)
              IN IF r.taken THEN r.cpu ELSE Advance(r.cpu)
         [] OTHER -> Panic(c)

\* One step: input drain, tick, interrupt check, fetch, execute.  Returns the
\* CPU after the step, what the step did, and the word fetched (if any).  The
\* result of each phase is bound once (x \in {e}) and handed to the next.
\* the end of a step: c2 is the CPU after the instruction body
step_done(c2, inst) ==
    [cpu |-> c2, did |-> IF c2.fatal THEN "fatal" ELSE "exec", inst |-> inst]

\* the step from the fetched word on: f is the result of fetch
step_execute(f) ==
    IF f.panic THEN [cpu |-> Panic(f.cpu), did |-> "fatal", inst |-> {}]
    ELSE CHOOSE r \in {step_done(c2, f.inst) : c2 \in {execute(f.cpu, f.inst)}} :
             TRUE

\* the step from the interrupt check on: ci is its result
step_fetch(ci) ==
    IF ci.taken THEN [cpu |-> ci.cpu, did |-> "interrupt", inst |-> {}]
    ELSE CHOOSE r \in {step_execute(f) : f \in {fetch(ci.cpu)}} : TRUE

\* variant of step that checks for interrupts before the tick
step_tick_last(c) ==
    LET c1 == [c EXCEPT !.bus = Bus_receive_uart_input(c.bus)]
    IN CHOOSE r \in {step_fetch([cpu |-> [ci.cpu EXCEPT !.bus = Bus_tick(@)],
                                 taken |-> ci.taken]) :
                       ci \in {check_pending_interrupts(c1)}} : TRUE

\* variant of step in which a step that takes an interrupt leaves mtime alone
step_no_tick_on_trap(c) ==
    LET c1 == [c EXCEPT !.bus = Bus_tick(Bus_receive_uart_input(c.bus))]
    IN CHOOSE r \in {IF ci.taken
                     THEN [cpu |-> [ci.cpu EXCEPT !.bus.clint.mtime =
                                                     c.bus.clint.mtime],
                           did |-> "interrupt", inst |-> {}]
                     ELSE step_fetch(ci) :
                       ci \in {check_pending_interrupts(c1)}} : TRUE

\* variant of step that takes the host input after the interrupt check
step_receive_last(c) ==
    LET c1 == [c EXCEPT !.bus = Bus_tick(c.bus)]
    IN CHOOSE r \in
         {[r1 EXCEPT !.cpu.bus = Bus_receive_uart_input(@)] :
            r1 \in {step_fetch(ci) : ci \in {check_pending_interrupts(c1)}}} : TRUE

step(c) ==
    LET c1 == [c EXCEPT !.bus = Bus_tick(Bus_receive_uart_input(c.bus))]
    IN CHOOSE r \in {step_fetch(ci) : ci \in {check_pending_interrupts(c1)}} : TRUE

(***************************************************************************)
(* Instruction encodings used as program inputs                            *)
(***************************************************************************)
EncI(imm, r1, f3, d, op) ==
    BitsOf(op) \cup Shl(BitsOf(d), 7) \cup Shl(BitsOf(f3), 12)
      \cup Shl(BitsOf(r1), 15) \cup Shl(BitsOf(imm), 20)

EncS(imm, r2, r1, f3, op) ==
    BitsOf(op) \cup Shl(BitsOf(imm % 32), 7) \cup Shl(BitsOf(f3), 12)
      \cup Shl(BitsOf(r1), 15) \cup Shl(BitsOf(r2), 20)
      \cup Shl(BitsOf(imm \div 32), 25)

\* JAL with an even offset 0 <= imm < 2048
EncJ(imm, d) == BitsOf(JAL) \cup Shl(BitsOf(d), 7) \cup Shl(BitsOf(imm \div 2), 21)

I_ECALL == EncI(0, 0, 0, 0, SYSTEM)
I_EBREAK == EncI(1, 0, 0, 0, SYSTEM)
I_MRET == EncI(770, 0, 0, 0, SYSTEM)
I_SRET == EncI(258, 0, 0, 0, SYSTEM)
I_ADDI(d, r1, imm) == EncI(imm, r1, 0, d, OP_IMM)
I_CSRRW(d, a, r1) == EncI(a, r1, 1, d, SYSTEM)
I_CSRRS(d, a, r1) == EncI(a, r1, 2, d, SYSTEM)
I_LW(d, r1, imm) == EncI(imm, r1, 2, d, LOAD)
I_SD(r2, r1, imm) == EncS(imm, r2, r1, 3, STORE)
I_SB(r2, r1, imm) == EncS(imm, r2, r1, 0, STORE)
I_AUIPC(d) == EncI(0, 0, 0, d, AUIPC)
I_JALR(d, r1, imm) == EncI(imm, r1, 0, d, JALR)
I_LD(d, r1, imm) == EncI(imm, r1, 3, d, LOAD)
\* the CSR instruction with funct3 f3 on CSR a: rd = d, rs1 field = r1
I_CSR(f3, d, a, r1) == EncI(a, r1, f3, d, SYSTEM)
I_LUI(d, imm20) == BitsOf(LUI) \cup Shl(BitsOf(d), 7) \cup Shl(BitsOf(imm20), 12)

\* word k of the program area, as an address
WordAddr(k) == Add64(DRAM_BASE, BitsOf(4 * k))

(***************************************************************************)
(* Bounds and input sets                                                   *)
(***************************************************************************)
\* steps per run (mtime is capped at this value)
MaxTime == 4
\* bytes typed by the host that the program has not yet read from the UART
MaxInput == 1

HostBytes == {{0, 6}}

\* programs: the words at DRAM_BASE, and the CSRs the harness presets
Programs ==
    { [code |-> <<I_ADDI(1, 1, 1), I_ECALL, I_ADDI(1, 1, 1), I_EBREAK, I_MRET>>,
       csrs |-> {}],
      [code |-> <<I_MRET, I_ADDI(1, 1, 1), I_ECALL, I_ADDI(0, 1, 1), I_MRET>>,
       csrs |-> {<<MEPC, WordAddr(2)>>}],
      [code |-> <<I_AUIPC(2), I_LW(0, 2, 0), I_CSRRW(0, MSTATUS, 1),
                  EncJ(4, 0), I_MRET>>,
       csrs |-> {}],
      [code |-> <<I_CSRRS(1, MSTATUS, 0), I_JALR(0, 2, 0), I_ADDI(1, 1, 1),
                  I_ADDI(1, 1, 1), I_CSRRW(1, MEPC, 1)>>,
       csrs |-> {}],
      [code |-> <<I_AUIPC(2), I_SD(2, 2, 24), I_LW(1, 2, 24), I_SB(2, 2, 1),
                  I_MRET>>,
       csrs |-> {}],
      \* x3 = 0x200C000; LD x1, -8(x3) reads mtime; SD x0, -8(x3) stores 0 to
      \* it; CSRRS x1, MIP, x0 reads MIP, which the harness had written
      [code |-> <<I_LUI(3, 8204), I_LD(1, 3, 4088), I_SD(0, 3, 4088),
                  I_CSRRS(1, MIP, 0), I_MRET>>,
       csrs |-> {<<MIP, {3, 5, 7, 11}>>}],
      \* CSRRC x1, stval, x1; CSRRS x2, stval, x1; CSRRCI x2, stval, 5; EBREAK
      [code |-> <<I_CSR(3, 1, STVAL, 1), I_CSR(2, 2, STVAL, 1),
                  I_CSR(7, 2, STVAL, 5), I_EBREAK, I_MRET>>,
       csrs |-> {<<STVAL, {0, 1, 2, 5}>>}],
      \* CSRRSI x1, stval, 17; CSRRCI x0, stval, 0; CSRRWI x2, stval, 21;
      \* CSRRWI x1, stval, 0; and CSRRSI x1, stval, 0 where a direct trap lands
      [code |-> <<I_CSR(6, 1, STVAL, 17), I_CSR(7, 0, STVAL, 0),
                  I_CSR(5, 2, STVAL, 21), I_CSR(5, 1, STVAL, 0),
                  I_CSR(6, 1, STVAL, 0), I_MRET>>,
       csrs |-> {<<STVAL, {2, 5, 40}>>}],
      \* CSRRW x2, stval, x1; CSRRW x3, stval, x2; CSRRW x4, mip, x2;
      \* CSRRW x5, mip, x4
      [code |-> <<I_CSR(1, 2, STVAL, 1), I_CSR(1, 3, STVAL, 2),
                  I_CSR(1, 4, MIP, 2), I_CSR(1, 5, MIP, 4), I_MRET>>,
       csrs |-> {<<STVAL, {0, 3, 7}>>, <<MIP, {5}>>}] }
      \cup { [code |-> <<I_SRET, I_ADDI(1, 1, 1), I_MRET, I_ECALL, I_MRET>>,
              csrs |-> {<<SEPC, WordAddr(1)>>, <<SSTATUS, v>>}] :
             v \in {{8}, {5}, {1, 5, 8}, {1}} }

Modes == {"User", "Supervisor", "Machine"}

MstatusVals == {{}, {3}, {7, 11}, {3, 7, 11, 12}, {1, 3, 13}, {7, 12}}

\* MTVEC: direct, handler at word 4 of the program; vectored, base past it
MtvecDirect == {4, 31}
MtvecVectored == {0, 5, 31}

\* interrupt configurations: MIE register, mtimecmp, msip, UART IER, MTVEC
IrqCfgs ==
    { [mie |-> {}, mtimecmp |-> {}, msip |-> TRUE, ier |-> {0},
       mtvec |-> MtvecDirect],
      [mie |-> {7}, mtimecmp |-> {1}, msip |-> FALSE, ier |-> {},
       mtvec |-> MtvecDirect],
      [mie |-> {7}, mtimecmp |-> {0, 1}, msip |-> TRUE, ier |-> {0},
       mtvec |-> MtvecVectored],
      [mie |-> {3, 7}, mtimecmp |-> {0}, msip |-> TRUE, ier |-> {},
       mtvec |-> MtvecDirect],
      [mie |-> {3, 7, 11}, mtimecmp |-> {}, msip |-> TRUE, ier |-> {0},
       mtvec |-> MtvecVectored],
      [mie |-> {7, 11}, mtimecmp |-> {1}, msip |-> FALSE, ier |-> {0},
       mtvec |-> MtvecDirect],
      [mie |-> {11}, mtimecmp |-> {0, 1, 2}, msip |-> FALSE, ier |-> {0},
       mtvec |-> MtvecDirect],
      [mie |-> {3, 11}, mtimecmp |-> {0, 1, 2}, msip |-> TRUE, ier |-> {0},
       mtvec |-> MtvecVectored],
      [mie |-> {11}, mtimecmp |-> {0, 1, 2}, msip |-> FALSE, ier |-> {0},
       mtvec |-> MtvecVectored],
      \* mtime preset to 2^64 - 1 through the bus
      [mie |-> {7}, mtimecmp |-> {1}, msip |-> FALSE, ier |-> {},
       mtvec |-> MtvecDirect, mtime |-> 0..63] }

RegVals == {{0, 2, 31}}

(***************************************************************************)
(* State, initial state and actions                                        *)
(***************************************************************************)
\* the Cpu object assembled from the variables
Cpu ==
    [regs |-> regs, csr |-> csr, pc |-> pc, mode |-> mode,
     bus |-> [clint |-> clint, memory |-> memory, uart |-> uart,
              reservations |-> reservations],
     halted |-> halted, fatal |-> fatal]

Install(c) ==
    /\ regs' = c.regs
    /\ csr' = c.csr
    /\ pc' = c.pc
    /\ mode' = c.mode
    /\ halted' = c.halted
    /\ clint' = c.bus.clint
    /\ memory' = c.bus.memory
    /\ uart' = c.bus.uart
    /\ reservations' = c.bus.reservations
    /\ fatal' = c.fatal

\* ev records the last operation: its name, what a step did and the word it
\* fetched, and the register index a write_reg was given
Event(op, did, inst, idx) == [op |-> op, did |-> did, inst |-> inst, idx |-> idx]

NoEvent(op) == Event(op, "none", {}, 0)

\* ECALL and EBREAK as the code decodes them (rd and rs1 are not looked at)
IsTrapInst(inst) ==
    /\ opcode(inst) = SYSTEM
    /\ funct3(inst) = 0
    /\ funct7(inst) = 0
    /\ rs2(inst) \in {0, 1}

\* entry records the last trap entry: the PC, mode and MSTATUS.MIE it
\* interrupted, and MEPC and MSTATUS as it left them
NoEntry ==
    [valid |-> FALSE, pc |-> {}, mode |-> "Machine", mie |-> FALSE,
     mepc |-> {}, mstatus |-> {}]

EntryOf(before, after) ==
    [valid |-> TRUE, pc |-> before.pc, mode |-> before.mode,
     mie |-> (Csr_read(before.csr, MSTATUS) \cap MSTATUS_MIE) # {},
     mepc |-> Csr_read(after.csr, MEPC),
     mstatus |-> Csr_read(after.csr, MSTATUS)]

\* Cpu::new(): the state after construction
Init ==
    /\ regs = Cpu_new.regs
    /\ csr = Cpu_new.csr
    /\ pc = Cpu_new.pc
    /\ mode = Cpu_new.mode
    /\ halted = Cpu_new.halted
    /\ clint = Cpu_new.bus.clint
    /\ memory = Cpu_new.bus.memory
    /\ uart = Cpu_new.bus.uart
    /\ reservations = Cpu_new.bus.reservations
    /\ fatal = Cpu_new.fatal
    /\ ev = NoEvent("new")
    /\ prev = Cpu_new
    /\ entry = NoEntry
    /\ log = <<>>

RECURSIVE CsrWriteAll(_, _)
\* csr.write(addr, value) for each pair of ws (distinct addresses)
CsrWriteAll(cs, ws) ==
    IF ws = {} THEN cs
    ELSE LET w == CHOOSE x \in ws : TRUE
         IN CsrWriteAll(Csr_write(cs, w[1], w[2]), ws \ {w})

\* the CSR writes of the arrange phase
SetupCsrs(p, ms, q) ==
    p.csrs \cup {<<MTVEC, q.mtvec>>, <<MIE, q.mie>>}
      \cup (IF ms = {} THEN {} ELSE {<<MSTATUS, ms>>})

\* the arrange phase of a run: load_program, then the harness writes of mode,
\* CSRs, mtimecmp, msip and the UART IER through the public fields and the bus
Setup(p, mo, ms, q) ==
    /\ ev.op = "new"
    /\ \E c0 \in {load_program(Cpu, p.code, 1)} :
       \E b0 \in {IF "mtime" \in DOMAIN q
                  THEN Bus_write64(c0.bus, Add64(CLINT_BASE, BitsOf(MTIME_OFFSET)),
                                   q.mtime).bus
                  ELSE c0.bus} :
       \E b1 \in {Bus_write64(b0, Add64(CLINT_BASE, BitsOf(MTIMECMP_OFFSET)),
                               q.mtimecmp).bus} :
       \E b2 \in {Bus_write32(b1, CLINT_BASE, BoolBits(q.msip)).bus} :
       \E b3 \in {Bus_write8(b2, Add64(UART_BASE, BitsOf(UART_IER)), q.ier).bus} :
       \E c3 \in {[c0 EXCEPT !.mode = mo,
                              !.csr = CsrWriteAll(c0.csr, SetupCsrs(p, ms, q)),
                              !.bus = b3]} :
          Install(c3)
    /\ ev' = NoEvent("setup")
    /\ UNCHANGED <<prev, entry, log>>

\* cpu.write_reg(index, value) called by the harness before the run
WriteReg(index, value) ==
    /\ ~fatal
    /\ ev.op \in {"setup", "write_reg"}
    /\ \E c1 \in {write_reg(Cpu, index, value)} : Install(c1)
    /\ ev' = Event("write_reg", "none", {}, index)
    /\ prev' = Cpu
    /\ UNCHANGED <<entry, log>>

\* the host reader thread hands a typed byte to the terminal's queue
HostInput(b) ==
    /\ ~fatal
    /\ Len(uart.terminal.input) + Len(uart.rx_fifo) < MaxInput
    /\ uart' = [uart EXCEPT !.terminal.input = Append(@, b)]
    /\ ev' = NoEvent("host")
    /\ UNCHANGED <<cpuVars, fatal, prev, entry, log>>

\* self.mtime += 1 with mtime = 2^64 - 1: a build with overflow checks
\* panics in the tick, a build without them wraps (as Clint_tick does)
tick_overflow(c) ==
    IF c.bus.clint.mtime = 0..63
    THEN {[cpu |-> Panic([c EXCEPT !.bus = Bus_receive_uart_input(c.bus)]),
           did |-> "fatal", inst |-> {}]}
    ELSE {}

\* (rs1_val as u32) << shamt and the like with shamt >= 32: a build with
\* overflow checks panics in the shift, a build without them shifts by
\* shamt mod 32 (as execute_op_imm_32 and execute_op_32 do).  r is the
\* result of step(c); the panic leaves the registers and PC of c
shift_overflow(c, r) ==
    IF r.did = "exec" /\ ShiftsBy32(c.regs, r.inst)
    THEN {[cpu |-> Panic([r.cpu EXCEPT !.regs = c.regs, !.pc = c.pc]),
           did |-> "fatal", inst |-> r.inst]}
    ELSE {}

\* the outcomes of cpu.step() over the builds
step_outcomes(c) ==
    tick_overflow(c)
      \cup UNION {{r} \cup shift_overflow(c, r) : r \in {step(c)}}

\* cpu.step()
Step ==
    /\ ~fatal
    /\ Ltu(clint.mtime, BitsOf(MaxTime)) \/ clint.mtime = 0..63
    /\ \E r \in step_outcomes(Cpu) :
          /\ Install(r.cpu)
          /\ ev' = Event("step", r.did, r.inst, 0)
          /\ entry' = IF r.did = "interrupt"
                          \/ (r.did = "exec" /\ IsTrapInst(r.inst))
                       THEN EntryOf(Cpu, r.cpu)
                       ELSE entry
    /\ prev' = Cpu
    /\ UNCHANGED log

Next ==
    \/ \E p \in Programs, mo \in Modes, ms \in MstatusVals, q \in IrqCfgs :
          Setup(p, mo, ms, q)
    \/ \E index \in {0, 1}, value \in RegVals : WriteReg(index, value)
    \/ \E b \in HostBytes : HostInput(b)
    \/ Step

Spec == Init /\ [][Next]_vars

(***************************************************************************)
(* The UART driven directly through its register and input interface      *)
(***************************************************************************)
\* bytes the terminal may be sent before the run is cut off
MaxOutput == 2

UartOffsets == 0..7

\* values written per register: data bytes, enable masks, clear masks, and
\* one value for the plain storage registers
UartWriteVals(offset) ==
    CASE offset = UART_THR -> {{0, 6}, {1, 6}}
      [] offset = UART_IER -> {{}, {0}, {1}, {0, 1}}
      [] offset = UART_FCR -> {{1}, {2}, {1, 2}}
      [] OTHER -> {{0, 1}}

UartRead8(offset) ==
    /\ ~fatal
    /\ LET r == Uart_read8(uart, offset)
       IN /\ uart' = r.uart
          /\ fatal' = r.panic
          /\ ev' = NoEvent("uart")
    /\ UNCHANGED <<cpuVars, prev, entry, log>>

\* log is the sequence of bytes written to THR so far
UartWrite8(offset, value) ==
    /\ ~fatal
    /\ Len(uart.terminal.output) < MaxOutput
    /\ LET r == Uart_write8(uart, offset, value)
       IN /\ uart' = r.uart
          /\ fatal' = r.panic
          /\ ev' = NoEvent("uart")
    /\ log' = IF offset = UART_THR THEN Append(log, value) ELSE log
    /\ UNCHANGED <<cpuVars, prev, entry>>

UartPushInput(b) ==
    /\ ~fatal
    /\ uart' = push_input(uart, b)
    /\ ev' = NoEvent("uart")
    /\ UNCHANGED <<cpuVars, fatal, prev, entry, log>>

UartReceiveInput ==
    /\ ~fatal
    /\ uart' = receive_input(uart)
    /\ ev' = NoEvent("uart")
    /\ UNCHANGED <<cpuVars, fatal, prev, entry, log>>

NextUart ==
    \/ \E offset \in UartOffsets : UartRead8(offset)
    \/ \E offset \in UartOffsets : \E value \in UartWriteVals(offset) :
          UartWrite8(offset, value)
    \/ \E b \in HostBytes : UartPushInput(b)
    \/ UartReceiveInput
    \/ \E b \in HostBytes : HostInput(b)

SpecUart == Init /\ [][NextUart]_vars

(***************************************************************************)
(* The bus driven directly through its write and reservation interface,    *)
(* and through store instructions                                          *)
(***************************************************************************)
\* bus operations per run
MaxOps == 3

Harts == {0, 1}

\* addresses: two in DRAM (aligned, unaligned and overlapping the first), the
\* end of DRAM, the UART scratch register and the CLINT mtimecmp register
DramAligned == Add64(DRAM_BASE, {4})
DramUnaligned == Add64(DRAM_BASE, {0, 4})
\* the last 8 bytes of DRAM
DramLast == Sub64(Add64(DRAM_BASE, DRAM_SIZE), {3})
UartScratch == Add64(UART_BASE, BitsOf(UART_SCR))
ClintCmp == Add64(CLINT_BASE, BitsOf(MTIMECMP_OFFSET))

\* 0x0807060504030201 and 0xF1E2D3C4B5A69788
ValueA == {0, 9, 16, 17, 26, 32, 34, 41, 42, 48, 49, 50, 59}
ValueB == {3, 7, 8, 9, 10, 12, 15, 17, 18, 21, 23, 24, 26, 28, 29, 31,
           34, 38, 39, 40, 41, 44, 46, 47, 49, 53, 54, 55, 56, 60, 61, 62, 63}

BusReserveInputs ==
    {<<0, DramAligned>>, <<0, DramUnaligned>>, <<1, DramAligned>>,
     <<1, UartScratch>>}

\* width in bytes, address, value handed to the bus (truncated to the width)
\* (the store instructions write the four widths at DramAligned)
BusWriteInputs ==
    {<<w, DramUnaligned, ZeroExt(ValueB, 8 * w)>> : w \in {1, 2, 4, 8}}
      \cup {<<2, UartScratch, ZeroExt(ValueA, 16)>>, <<8, ClintCmp, ValueA>>,
            <<8, DramLast, ValueB>>}

\* bus.write8/16/32/64 by width
BusWriteW(b, w, addr, value) ==
    CASE w = 1 -> Bus_write8(b, addr, value)
      [] w = 2 -> Bus_write16(b, addr, value)
      [] w = 4 -> Bus_write32(b, addr, value)
      [] w = 8 -> Bus_write64(b, addr, value)

\* bus.read8/16/32/64 by width
BusReadW(b, w, addr) ==
    CASE w = 1 -> Bus_read8(b, addr)
      [] w = 2 -> Bus_read16(b, addr)
      [] w = 4 -> Bus_read32(b, addr)
      [] w = 8 -> Bus_read64(b, addr)

\* an entry of log: the kind of operation and its arguments
LogEntry(k, hart, w, addr, val) ==
    [k |-> k, hart |-> hart, w |-> w, addr |-> addr, val |-> val]

BusReserve(hart_id, addr) ==
    /\ ~fatal
    /\ Len(log) < MaxOps
    /\ reservations' = reserve(Cpu.bus, hart_id, addr).reservations
    /\ log' = Append(log, LogEntry("reserve", hart_id, 0, addr, {}))
    /\ ev' = NoEvent("bus")
    /\ prev' = Cpu
    /\ UNCHANGED <<regs, csr, pc, mode, halted, clint, memory, uart, fatal, entry>>

BusClearReservation(hart_id) ==
    /\ ~fatal
    /\ Len(log) < MaxOps
    /\ reservations' = clear_reservation(Cpu.bus, hart_id).reservations
    /\ log' = Append(log, LogEntry("clear", hart_id, 0, {}, {}))
    /\ ev' = NoEvent("bus")
    /\ prev' = Cpu
    /\ UNCHANGED <<regs, csr, pc, mode, halted, clint, memory, uart, fatal, entry>>

BusWrite(w, addr, value) ==
    /\ ~fatal
    /\ Len(log) < MaxOps
    /\ \E r \in {BusWriteW(Cpu.bus, w, addr, value)} :
          /\ clint' = r.bus.clint
          /\ memory' = r.bus.memory
          /\ uart' = r.bus.uart
          /\ reservations' = r.bus.reservations
          /\ fatal' = r.panic
    /\ log' = Append(log, LogEntry("write", 0, w, addr, value))
    /\ ev' = NoEvent("bus")
    /\ prev' = Cpu
    /\ UNCHANGED <<regs, csr, pc, mode, halted, entry>>

\* SB, SH, SW, SD x2, 0(x1)
I_STORE(f3) == EncS(0, 2, 1, f3, STORE)

\* a store instruction run as the tests do: x1 and x2 are set with
\* write_reg, the instruction is written at PC with bus.write32, then
\* cpu.step(); prev is the CPU the step started from
StoreStep(f3, addr, value) ==
    /\ ~fatal
    /\ Len(log) < MaxOps
    /\ \E c1 \in {write_reg(write_reg(Cpu, 1, addr), 2, value)} :
       \E w \in {Bus_write32(c1.bus, c1.pc, I_STORE(f3))} :
       \E c2 \in {[c1 EXCEPT !.bus = w.bus, !.fatal = w.panic]} :
       \E r \in {step(c2)} :
          /\ Install(r.cpu)
          /\ ev' = Event("step", r.did, r.inst, 0)
          /\ prev' = c2
          /\ log' = log \o <<LogEntry("write", 0, 4, c1.pc, I_STORE(f3)),
                             LogEntry("write", 0, 2 ^ f3, addr,
                                      ZeroExt(value, 8 * (2 ^ f3)))>>
    /\ UNCHANGED entry

NextBus ==
    \/ \E x \in BusReserveInputs : BusReserve(x[1], x[2])
    \/ \E h \in Harts : BusClearReservation(h)
    \/ \E x \in BusWriteInputs : BusWrite(x[1], x[2], x[3])
    \/ \E f3 \in 0..3 : StoreStep(f3, DramAligned, ValueA)

SpecBus == Init /\ [][NextBus]_vars

(***************************************************************************)
(* Single instructions run on a fresh CPU, as the unit tests run them      *)
(***************************************************************************)
EncR(f7, r2, r1, f3, d, op) ==
    BitsOf(op) \cup Shl(BitsOf(d), 7) \cup Shl(BitsOf(f3), 12)
      \cup Shl(BitsOf(r1), 15) \cup Shl(BitsOf(r2), 20) \cup Shl(BitsOf(f7), 25)

\* a branch with offset imm given as a 13-bit two's complement number
EncB(imm, r2, r1, f3) ==
    BitsOf(BRANCH) \cup Shl(BitsOf((imm \div 2048) % 2), 7)
      \cup Shl(BitsOf((imm \div 2) % 16), 8) \cup Shl(BitsOf(f3), 12)
      \cup Shl(BitsOf(r1), 15) \cup Shl(BitsOf(r2), 20)
      \cup Shl(BitsOf((imm \div 32) % 64), 25)
      \cup Shl(BitsOf((imm \div 4096) % 2), 31)

\* operand values: 0, 1, 7, 35, 0x80000000, 0x1_0000_0000,
\* 0x0000_0003_8000_0024, i32::MIN sign-extended, i64::MIN, -1
OperandsA == {{}, {0, 1, 2}, {31}, {2, 5, 31, 32, 33}, 31..63, {63}, 0..63}
OperandsB == {{}, {0}, {0, 1, 5}, {32}, {2, 5, 31, 32, 33}, 0..63}

\* x3 = x1 op x2 for every (funct3, funct7) the OP and OP-32 arms decode
OpInsts ==
    {EncR(f7, 2, 1, f3, 3, OP) : f3 \in 0..7, f7 \in {0, 1}}
      \cup {EncR(32, 2, 1, f3, 3, OP) : f3 \in {0, 5}}

Op32Insts ==
    {EncR(0, 2, 1, f3, 3, OP_32) : f3 \in {0, 1, 5}}
      \cup {EncR(1, 2, 1, f3, 3, OP_32) : f3 \in {0, 4, 5, 6, 7}}
      \cup {EncR(32, 2, 1, f3, 3, OP_32) : f3 \in {0, 5}}

\* ADDIW x3, x1, imm and SLLIW, SRLIW, SRAIW x3, x1, s with s in 0..63
ShiftAmounts == {0, 3, 31, 32, 35, 63}

OpImm32Insts ==
    {EncI(imm, 1, 0, 3, OP_IMM_32) : imm \in {1, 2047, 4095}}
      \cup {EncI(sh, 1, f3, 3, OP_IMM_32) : sh \in ShiftAmounts, f3 \in {1, 5}}
      \cup {EncI(1024 + sh, 1, 5, 3, OP_IMM_32) : sh \in ShiftAmounts}

\* the six branches on x1, x2 with offsets +8 and -4; JAL; JALR with
\* rd = rs1 and an odd target; instructions that leave PC to the step
BranchInsts == {EncB(imm, 2, 1, f3) : imm \in {8, 8188}, f3 \in {0, 1, 4, 5, 6, 7}}

JumpInsts == {EncJ(8, 3), I_JALR(1, 1, 7), I_JALR(3, 1, 4092), I_JALR(0, 2, 0)}

PlainInsts ==
    {I_ADDI(3, 1, 1), I_LUI(3, 1), I_AUIPC(3), I_LW(3, 0, 0), I_SB(2, 0, 0),
     I_CSR(1, 3, STVAL, 1), I_CSR(6, 1, STVAL, 0), I_ECALL, I_EBREAK, I_MRET,
     I_SRET}

\* words no arm decodes: opcodes 0x00, 0x0F (FENCE) and 0x7F, OP and OP-32
\* with funct7 2, MULHW-like OP-32 (1, 1), OP-IMM-32 funct3 2 and funct3 5
\* with bit 11 of the immediate, SRLI with bit 6 of the immediate, BRANCH
\* funct3 2 and 3, LOAD funct3 7, STORE funct3 4, SYSTEM funct3 4, WFI
IllegalInsts ==
    {{7}, BitsOf(15), BitsOf(127), EncR(2, 2, 1, 0, 3, OP),
     EncR(2, 2, 1, 0, 3, OP_32), EncR(1, 2, 1, 1, 3, OP_32),
     EncI(0, 1, 2, 3, OP_IMM_32), EncI(2051, 1, 5, 3, OP_IMM_32),
     EncI(64, 1, 5, 3, OP_IMM), EncB(8, 2, 1, 2), EncB(8, 2, 1, 3),
     EncI(0, 0, 7, 3, LOAD), EncS(0, 2, 0, 4, STORE),
     EncI(STVAL, 1, 4, 3, SYSTEM), EncI(261, 0, 0, 0, SYSTEM)}

\* one instruction run as the tests do: x1 and x2 are set with write_reg,
\* MSTATUS with csr.write, the word is written at PC with bus.write32, then
\* cpu.step(); prev is the CPU the step started from
ExecInst(inst, a, b, ms) ==
    /\ ev.op = "new"
    /\ \E c1 \in {write_reg(write_reg(Cpu, 1, a), 2, b)} :
       \E w \in {Bus_write32(c1.bus, c1.pc, inst)} :
       \E c2 \in {[c1 EXCEPT !.bus = w.bus,
                              !.csr = Csr_write(@, MSTATUS, ms)]} :
       \E r \in step_outcomes(c2) :
          /\ Install(r.cpu)
          /\ ev' = Event("step", r.did, r.inst, 0)
          /\ prev' = c2
    /\ UNCHANGED <<entry, log>>

NextInst ==
    \/ \E inst \in OpInsts \cup Op32Insts, a \in OperandsA, b \in OperandsB :
          ExecInst(inst, a, b, {})
    \/ \E inst \in OpImm32Insts, a \in OperandsA : ExecInst(inst, a, {}, {})
    \/ \E inst \in BranchInsts \cup JumpInsts \cup PlainInsts,
          a \in {{}, {0, 1, 2}, {2, 31}, 0..63}, b \in {{0, 1, 2}, {2, 31}} :
          ExecInst(inst, a, b, {7, 11})
    \/ \E inst \in IllegalInsts \cup {I_MRET}, ms \in {{12}, {3, 7, 12}} :
          ExecInst(inst, {0, 1, 2}, {0}, ms)

SpecInst == Init /\ [][NextInst]_vars

(***************************************************************************)
(* The UART receive path: bytes arrive by push_input and from the terminal *)
(***************************************************************************)
\* the byte Uart::push_input is called with: one of 1..3, following the
\* newest queued byte, so that neighbours in the FIFO differ
PushByte(u) ==
    IF u.rx_fifo = <<>> THEN {0}
    ELSE BitsOf((NatOf(u.rx_fifo[Len(u.rx_fifo)]) % 3) + 1)

\* the byte typed at the terminal
TerminalByte == {0, 6}

\* terminal bytes typed and not yet read by the program
InFlight(u) ==
    Len(u.terminal.input)
      + Cardinality({i \in 1..Len(u.rx_fifo) : u.rx_fifo[i] = TerminalByte})

\* ev after an operation on the UART: what it was, the byte that arrived or
\* was returned, and the number of bytes that were queued before it
FifoEvent(op, did, val) ==
    /\ ev' = Event(op, did, val, Len(uart.rx_fifo))
    /\ UNCHANGED <<cpuVars, fatal, prev, entry, log>>

\* MockTerminal::push_input: the host types a byte
FifoTerminalInput ==
    /\ InFlight(uart) < MaxInput
    /\ uart' = [uart EXCEPT !.terminal.input = Append(@, TerminalByte)]
    /\ FifoEvent("host", "none", TerminalByte)

\* Uart::push_input
FifoPushInput ==
    /\ uart' = push_input(uart, PushByte(uart))
    /\ FifoEvent("push", "byte", PushByte(uart))

\* Uart::receive_input
FifoReceiveInput ==
    /\ uart' = receive_input(uart)
    /\ IF uart.terminal.input # <<>>
       THEN FifoEvent("receive", "byte", Head(uart.terminal.input))
       ELSE FifoEvent("receive", "none", {})

\* Uart::read8 of RBR or LSR; ev.inst is the byte returned
FifoRead8(offset) ==
    \E r \in {Uart_read8(uart, offset)} :
       /\ uart' = r.uart
       /\ FifoEvent("read", IF offset = UART_RBR THEN "rbr" ELSE "reg", r.val)

\* Uart::write8 of IER or FCR
FifoWrite8(offset, value) ==
    /\ uart' = Uart_write8(uart, offset, value).uart
    /\ FifoEvent("write", "reg", value)

NextFifo ==
    \/ FifoTerminalInput
    \/ FifoPushInput
    \/ FifoReceiveInput
    \/ \E offset \in {UART_RBR, UART_LSR} : FifoRead8(offset)
    \/ FifoWrite8(UART_IER, {0})
    \/ FifoWrite8(UART_FCR, {1})

SpecFifo == Init /\ [][NextFifo]_vars

(***************************************************************************)
(* Single bus accesses of every width in every region: a write, then a     *)
(* read                                                                    *)
(***************************************************************************)
\* CLINT: msip, mtimecmp, mtime and an offset that is no register; UART:
\* RBR/THR, an offset that is no register, LSR, SCR; DRAM; and addresses in
\* no region: 0, either side of the CLINT, past the UART, below DRAM
ClintAddrs ==
    {CLINT_BASE, ClintCmp, Add64(CLINT_BASE, BitsOf(MTIME_OFFSET)),
     Add64(CLINT_BASE, {3})}

UartAddrs ==
    {UART_BASE, Add64(UART_BASE, {2}), Add64(UART_BASE, BitsOf(UART_LSR)),
     UartScratch}

DramAddrs == {DramAligned, DramUnaligned, DramLast, Add64(DRAM_BASE, DRAM_SIZE)}

OtherAddrs ==
    {{}, Sub64(CLINT_BASE, {0}), Add64(CLINT_BASE, CLINT_SIZE),
     Add64(UART_BASE, UART_SIZE), Sub64(DRAM_BASE, {0})}

RouteAddrs == ClintAddrs \cup UartAddrs \cup DramAddrs \cup OtherAddrs

\* bus.write8/16/32/64(addr, value) on a fresh bus
RouteWrite(w, addr, value) ==
    /\ ~fatal
    /\ log = <<>>
    /\ \E r \in {BusWriteW(Cpu.bus, w, addr, value)} :
          /\ clint' = r.bus.clint
          /\ memory' = r.bus.memory
          /\ uart' = r.bus.uart
          /\ reservations' = r.bus.reservations
          /\ fatal' = r.panic
    /\ log' = Append(log, LogEntry("write", 0, w, addr, value))
    /\ ev' = Event("bus", "write", {}, 0)
    /\ prev' = Cpu
    /\ UNCHANGED <<regs, csr, pc, mode, halted, entry>>

\* bus.read8/16/32/64(addr), on a fresh bus or after one write; ev.inst is
\* the value returned
RouteRead(w, addr) ==
    /\ ~fatal
    /\ \A i \in 1..Len(log) : log[i].k = "write"
    /\ \E r \in {BusReadW(Cpu.bus, w, addr)} :
          /\ clint' = r.bus.clint
          /\ memory' = r.bus.memory
          /\ uart' = r.bus.uart
          /\ reservations' = r.bus.reservations
          /\ fatal' = r.panic
          /\ ev' = Event("bus", "read", r.val, 0)
    /\ log' = Append(log, LogEntry("read", 0, w, addr, {}))
    /\ prev' = Cpu
    /\ UNCHANGED <<regs, csr, pc, mode, halted, entry>>

NextRoute ==
    \/ \E w \in {1, 2, 4, 8}, addr \in RouteAddrs :
          RouteWrite(w, addr, ZeroExt(ValueB, 8 * w))
    \/ \E w \in {1, 2, 4, 8}, addr \in RouteAddrs : RouteRead(w, addr)

SpecRoute == Init /\ [][NextRoute]_vars

(***************************************************************************)
(* SpecLoad: memory is first filled with one 64-bit write, then             *)
(* load_segments is called once.  log keeps the segments and the entry      *)
(* point that were passed.                                                  *)
(***************************************************************************)

\* data with a zero byte in it, memsz = data.len()
SegText == [vaddr |-> DRAM_BASE, data |-> <<{0, 1}, {}, {7}>>, memsz |-> 3]
\* two bytes of data and four of zero fill
SegData == [vaddr |-> Add64(DRAM_BASE, {2}), data |-> <<{3}, {0, 4}>>, memsz |-> 6]
\* no data, zero fill only
SegBss == [vaddr |-> Add64(DRAM_BASE, {4}), data |-> <<>>, memsz |-> 4]
\* memsz below data.len(): the zero-fill range is empty
SegShort == [vaddr |-> Add64(DRAM_BASE, {3, 2}), data |-> <<{1}, {2}, {0, 1}>>, memsz |-> 1]
\* ends on the last byte of DRAM
SegLast == [vaddr |-> Add64(DramLast, {1, 2}), data |-> <<{5}>>, memsz |-> 2]
\* overlaps SegText
SegOver == [vaddr |-> Add64(DRAM_BASE, {1}), data |-> <<{1, 2}, {1, 2}>>, memsz |-> 2]
\* runs past the end of DRAM
SegOut == [vaddr |-> Add64(DramLast, {0, 1, 2}), data |-> <<{1}>>, memsz |-> 2]

LoadSegs == {SegText, SegData, SegBss, SegShort, SegLast, SegOver, SegOut}

SegmentLists ==
    {<<>>} \cup {<<a>> : a \in LoadSegs}
           \cup {<<a, b>> : <<a, b>> \in {x \in LoadSegs \X LoadSegs : x[1] # x[2]}}

LoadEntries == {DRAM_BASE, Add64(DRAM_BASE, {2}), {}}

FillAddrs ==
    {DRAM_BASE, Add64(DRAM_BASE, {2}), Add64(DRAM_BASE, {3}),
     Add64(DRAM_BASE, {4}), DramLast}

\* bus.write64(addr, value) before the load
LoadFill(addr, value) ==
    /\ ev.op = "new"
    /\ \E r \in {Bus_write64(Cpu.bus, addr, value)} :
          /\ clint' = r.bus.clint
          /\ memory' = r.bus.memory
          /\ uart' = r.bus.uart
          /\ reservations' = r.bus.reservations
          /\ fatal' = r.panic
    /\ ev' = NoEvent("fill")
    /\ prev' = Cpu
    /\ UNCHANGED <<regs, csr, pc, mode, halted, entry, log>>

\* cpu.load_segments(&segments, entry)
LoadSegments(segments, e) ==
    /\ ev.op \in {"new", "fill"}
    /\ ~fatal
    /\ Install(load_segments(Cpu, segments, e))
    /\ ev' = NoEvent("load")
    /\ prev' = Cpu
    /\ log' = <<[k |-> "load", segs |-> segments, entry |-> e]>>
    /\ UNCHANGED entry

NextLoad ==
    \/ \E addr \in FillAddrs, value \in {ValueA, ValueB} : LoadFill(addr, value)
    \/ \E segments \in SegmentLists, e \in LoadEntries : LoadSegments(segments, e)

SpecLoad == Init /\ [][NextLoad]_vars

(***************************************************************************)
(* ELF loading.  A file is its length and its non-zero bytes by offset.    *)
(* checked tells whether the build panics on integer overflow (debug) or   *)
(* wraps (release).  The result is a panic, an error, or the entry point   *)
(* and the segments.                                                       *)
(***************************************************************************)

ELF_MAGIC == BitsOf(1179403647)
EI_CLASS == 4
EI_DATA == 5
ELF_CLASS64 == {1}
ELF_DATA2LSB == {0}
EM_RISCV == BitsOf(243)
PT_LOAD == {0}

ElfPanic == [kind |-> "panic", err |-> "", entry |-> {}, segments |-> <<>>]

ElfErr(e) == [kind |-> "err", err |-> e, entry |-> {}, segments |-> <<>>]

\* bytes[a..b] is in range when a <= b <= bytes.len(); out of range it panics
SliceOk(len, a, b) == Geu(b, a) /\ Geu(BitsOf(len), b)

\* from_le_bytes(bytes[at + a .. at + b]) for a slice known to be in range
FileLe(f, at, a, b) == ReadLe(f.data, BitsOf(at + a), b - a)

\* the ranges ElfHeader::parse slices
ElfHeaderSlices == {<<0, 16>>, <<18, 20>>, <<24, 32>>, <<32, 40>>, <<54, 56>>, <<56, 58>>}

\* the ranges ProgramHeader::parse slices
ProgramHeaderSlices ==
    {<<0, 4>>, <<4, 8>>, <<8, 16>>, <<16, 24>>, <<24, 32>>, <<32, 40>>,
     <<40, 48>>, <<48, 56>>}

ElfHeader_validate(h) ==
    IF h.e_ident \cap (0..31) # ELF_MAGIC THEN "InvalidMagic"
    ELSE IF Field(h.e_ident, 8 * EI_CLASS, 8) # NatOf(ELF_CLASS64) THEN "InvalidClass"
    ELSE IF Field(h.e_ident, 8 * EI_DATA, 8) # NatOf(ELF_DATA2LSB) THEN "InvalidEndian"
    ELSE IF h.e_machine # EM_RISCV THEN "InvalidMachine"
    ELSE "ok"

\* ElfHeader::parse: e_ident keeps its first 8 bytes here, the ones looked at
ElfHeader_parse(f) ==
    IF \E sl \in ElfHeaderSlices : ~SliceOk(f.len, BitsOf(sl[1]), BitsOf(sl[2]))
    THEN [kind |-> "panic"]
    ELSE LET h == [e_ident |-> FileLe(f, 0, 0, 8),
                   e_machine |-> FileLe(f, 0, 18, 20),
                   e_entry |-> FileLe(f, 0, 24, 32),
                   e_phoff |-> FileLe(f, 0, 32, 40),
                   e_phentsize |-> FileLe(f, 0, 54, 56),
                   e_phnum |-> FileLe(f, 0, 56, 58)]
             v == ElfHeader_validate(h)
         IN IF v = "ok" THEN [kind |-> "ok", header |-> h]
            ELSE [kind |-> "err", err |-> v]

\* ProgramHeader::parse(&bytes[at..]): the slice has len - at bytes
ProgramHeader_parse(f, at) ==
    IF \E sl \in ProgramHeaderSlices :
          ~SliceOk(f.len - at, BitsOf(sl[1]), BitsOf(sl[2]))
    THEN [kind |-> "panic"]
    ELSE [kind |-> "ok",
          p_type |-> FileLe(f, at, 0, 4),
          p_offset |-> FileLe(f, at, 8, 16),
          p_vaddr |-> FileLe(f, at, 16, 24),
          p_filesz |-> FileLe(f, at, 32, 40),
          p_memsz |-> FileLe(f, at, 40, 48)]

\* a + b in u64 or usize: a panic in a checked build when it overflows (in
\* a build that wraps, the slice that follows is out of range)
AddOverflows(a, b) == Ltu(Add64(a, b), a)

\* bytes[offset .. offset + filesz].to_vec() for a range known to be in the
\* file
SegmentData(f, ph) ==
    LET at == NatOf(ph.p_offset)
    IN [i \in 1..NatOf(Sub64(Add64(ph.p_offset, ph.p_filesz), ph.p_offset)) |->
          IF (at + i - 1) \in DOMAIN f.data THEN f.data[at + i - 1] ELSE {}]

RECURSIVE ElfFile_load_from(_, _, _, _, _)
\* the loop of ElfFile::load from program header i on
ElfFile_load_from(f, h, i, segments, checked) ==
    IF i >= NatOf(h.e_phnum)
    THEN [kind |-> "ok", err |-> "", entry |-> h.e_entry, segments |-> segments]
    ELSE LET delta == BitsOf(i * NatOf(h.e_phentsize))
             offset == Add64(h.e_phoff, delta)
         IN IF checked /\ AddOverflows(h.e_phoff, delta) THEN ElfPanic
            ELSE IF ~SliceOk(f.len, offset, BitsOf(f.len)) THEN ElfPanic
            ELSE LET ph == ProgramHeader_parse(f, NatOf(offset))
                 IN IF ph.kind = "panic" THEN ElfPanic
                    ELSE IF ph.p_type # PT_LOAD
                    THEN ElfFile_load_from(f, h, i + 1, segments, checked)
                    ELSE IF checked /\ AddOverflows(ph.p_offset, ph.p_filesz)
                    THEN ElfPanic
                    ELSE IF ~SliceOk(f.len, ph.p_offset,
                                     Add64(ph.p_offset, ph.p_filesz))
                    THEN ElfPanic
                    ELSE ElfFile_load_from(f, h, i + 1,
                           Append(segments,
                                  [vaddr |-> ph.p_vaddr,
                                   data |-> SegmentData(f, ph),
                                   memsz |-> NatOf(ph.p_memsz)]),
                           checked)

\* ElfFile::load(bytes)
ElfFile_load(f, checked) ==
    LET p == ElfHeader_parse(f)
    IN IF p.kind = "panic" THEN ElfPanic
       ELSE IF p.kind = "err" THEN ElfErr(p.err)
       ELSE ElfFile_load_from(f, p.header, 0, <<>>, checked)

(***************************************************************************)
(* SpecElf: ElfFile::load is called once on a file image, and the          *)
(* segments of a successful load are then passed to load_segments.  log    *)
(* keeps the image, the fields it was built from, and the result.          *)
(***************************************************************************)

PutLe(data, at, value, n) == WriteLe(data, BitsOf(at), value, n)

\* the 56 bytes of a program header at offset at
PutProgramHeader(data, at, ph) ==
    PutLe(PutLe(PutLe(PutLe(PutLe(PutLe(data,
      at, ph.type, 4), at + 4, {0, 1, 2}, 4), at + 8, ph.offset, 8),
      at + 16, ph.vaddr, 8), at + 32, ph.filesz, 8), at + 40, ph.memsz, 8)

RECURSIVE PutProgramHeaders(_, _, _)
\* the program headers of m from the i-th on, when e_phoff is below 2^16
PutProgramHeaders(data, m, i) ==
    IF i > Len(m.phs) \/ m.phoff \ (0..15) # {} THEN data
    ELSE PutProgramHeaders(
           PutProgramHeader(data, NatOf(m.phoff) + (i - 1) * m.phentsize, m.phs[i]),
           m, i + 1)

\* the bytes of a file with the header fields and program headers of m and
\* three bytes of segment data at offset 176
ElfBytes(m) ==
    LET ident == m.magic \cup Shl(m.class, 32) \cup Shl(m.enc, 40) \cup {48}
        header ==
          PutLe(PutLe(PutLe(PutLe(PutLe(PutLe(PutLe(Memory_new,
            0, ident, 8), 16, {1}, 2), 18, m.machine, 2), 24, m.entry, 8),
            32, m.phoff, 8), 54, BitsOf(m.phentsize), 2), 56, BitsOf(m.phnum), 2)
    IN PutLe(PutProgramHeaders(header, m, 1), 176, {0, 1, 17, 18}, 3)

PhLoad == [type |-> PT_LOAD, offset |-> BitsOf(176), vaddr |-> DRAM_BASE,
           filesz |-> {0, 1}, memsz |-> {0, 2}]
\* not PT_LOAD, with a file range outside the file
PhNote == [type |-> {2}, offset |-> {12}, vaddr |-> {}, filesz |-> {12},
           memsz |-> {12}]
\* PT_LOAD with a file range that ends past the end of the file
PhLong == [PhLoad EXCEPT !.filesz = {3}, !.vaddr = Add64(DRAM_BASE, {4})]
\* PT_LOAD with offset + filesz above 2^64
PhWrap == [PhLoad EXCEPT !.filesz = Sub64({}, {0})]

ElfGood ==
    [magic |-> ELF_MAGIC, class |-> ELF_CLASS64, enc |-> ELF_DATA2LSB,
     machine |-> EM_RISCV, entry |-> DRAM_BASE, phoff |-> {6}, phentsize |-> 56,
     phnum |-> 2, phs |-> <<PhLoad, PhNote>>]

ElfMetas ==
    {ElfGood,
     [ElfGood EXCEPT !.magic = ELF_MAGIC \ {0}],
     [ElfGood EXCEPT !.class = {0}],
     [ElfGood EXCEPT !.enc = {1}],
     [ElfGood EXCEPT !.machine = {}],
     [ElfGood EXCEPT !.magic = {}, !.class = {0}, !.machine = {3}],
     [ElfGood EXCEPT !.enc = {}, !.machine = BitsOf(62)],
     [ElfGood EXCEPT !.phnum = 0, !.phs = <<>>],
     [ElfGood EXCEPT !.phnum = 1],
     [ElfGood EXCEPT !.phs = <<PhNote, PhLoad>>],
     [ElfGood EXCEPT !.phs = <<PhLoad, PhLong>>],
     [ElfGood EXCEPT !.phs = <<PhNote, PhWrap>>],
     [ElfGood EXCEPT !.phoff = {8}, !.phnum = 1],
     [ElfGood EXCEPT !.phoff = {63}, !.phnum = 1]}

ElfLens == {0, 15, 57, 58, 64, 119, 120, 175, 176, 178, 179, 184}

ElfFiles == {[len |-> n, data |-> ElfBytes(m), meta |-> m] : n \in ElfLens, m \in ElfMetas}

\* ElfFile::load(&bytes)
ElfLoad(f, checked) ==
    /\ ev.op = "new"
    /\ log' = <<[k |-> "elf", file |-> f, result |-> ElfFile_load(f, checked)]>>
    /\ ev' = NoEvent("elf")
    /\ prev' = Cpu
    /\ UNCHANGED <<cpuVars, uart, fatal, entry>>

\* cpu.load_segments(&elf.segments, elf.entry) after a successful load
ElfLoadSegments ==
    /\ ev.op = "elf"
    /\ log[1].result.kind = "ok"
    /\ Install(load_segments(Cpu, log[1].result.segments, log[1].result.entry))
    /\ ev' = NoEvent("segments")
    /\ prev' = Cpu
    /\ UNCHANGED <<entry, log>>

NextElf ==
    \/ \E f \in ElfFiles, checked \in BOOLEAN : ElfLoad(f, checked)
    \/ ElfLoadSegments

SpecElf == Init /\ [][NextElf]_vars

(***************************************************************************)
(* SpecRun: after the arrange phase, in which the harness may set the      *)
(* public field halted, run() is called.  log keeps the value of halted    *)
(* at the call, the number of steps the loop has made, and whether run()   *)
(* has returned.                                                           *)
(***************************************************************************)

\* variant of run_continues in which the loop does not look at halted
run_continues_always(c) == TRUE

\* the loop condition of run(): while !self.halted
run_continues(c) == ~c.halted

RunModes == {"User", "Machine"}
RunMstatus == {{}, {3}}

\* cpu.halted = true, written by the harness before the call
SetHalted ==
    /\ ev.op = "setup"
    /\ halted' = TRUE
    /\ ev' = NoEvent("halt")
    /\ UNCHANGED <<regs, csr, pc, mode, clint, memory, uart, reservations,
                   fatal, prev, entry, log>>

\* cpu.run() is called and the loop condition is evaluated for the first time
RunCall ==
    /\ ev.op \in {"setup", "halt"}
    /\ ~fatal
    /\ log' = <<[k |-> "run", halted0 |-> halted, steps |-> 0,
                 returned |-> ~run_continues(Cpu)]>>
    /\ ev' = NoEvent("run")
    /\ UNCHANGED <<cpuVars, uart, fatal, prev, entry>>

\* one turn of the loop: self.step(), then the loop condition again
RunStep ==
    /\ ev.op \in {"run", "step"}
    /\ ~log[1].returned
    /\ ~fatal
    /\ Ltu(clint.mtime, BitsOf(MaxTime))
    /\ \E r \in step_outcomes(Cpu) :
          /\ Install(r.cpu)
          /\ ev' = Event("step", r.did, r.inst, 0)
          /\ log' = <<[log[1] EXCEPT !.steps = @ + 1,
                                     !.returned = ~r.cpu.fatal /\ ~run_continues(r.cpu)]>>
    /\ prev' = Cpu
    /\ UNCHANGED entry

NextRun ==
    \/ \E p \in Programs, mo \in RunModes, ms \in RunMstatus, q \in IrqCfgs :
          Setup(p, mo, ms, q)
    \/ SetHalted
    \/ RunCall
    \/ RunStep

SpecRun == Init /\ [][NextRun]_vars

(***************************************************************************)
(* SpecHost: the reader thread of a StdioTerminal sends bytes and ends      *)
(* while the CPU steps.  log keeps the bytes in the order they were sent.  *)
(***************************************************************************)

HostPrograms == {p \in Programs : p.csrs = {}}

HostClosed == uart.terminal.input # <<>>
                /\ uart.terminal.input[Len(uart.terminal.input)] = Hangup

\* the reader thread: tx.send(b) for the next byte of stdin; the k-th byte
\* sent is k
HostSend ==
    /\ ev.op # "new"
    /\ ~fatal
    /\ ~HostClosed
    /\ Len(log) < MaxOps
    /\ uart' = [uart EXCEPT !.terminal.input = Append(@, BitsOf(Len(log) + 1))]
    /\ log' = Append(log, BitsOf(Len(log) + 1))
    /\ ev' = NoEvent("host")
    /\ UNCHANGED <<cpuVars, fatal, prev, entry>>

\* the reader thread ends (end of input, or a failed send) and drops the sender
HostExit ==
    /\ ev.op # "new"
    /\ ~fatal
    /\ ~HostClosed
    /\ uart' = [uart EXCEPT !.terminal.input = Append(@, Hangup)]
    /\ ev' = NoEvent("host")
    /\ UNCHANGED <<cpuVars, fatal, prev, entry, log>>

NextHost ==
    \/ \E p \in HostPrograms, q \in IrqCfgs : Setup(p, "Machine", {3}, q)
    \/ HostSend
    \/ HostExit
    \/ Step

SpecHost == Init /\ [][NextHost]_vars

(***************************************************************************)
(* SpecCycle: a program whose trap handler is a single MRET runs with      *)
(* interrupts enabled; once the handler is entered the harness may remove  *)
(* the pending condition, as the tests do between steps.  log keeps what   *)
(* each step did, MSTATUS before and after it, and MEPC and MCAUSE after   *)
(* it.                                                                     *)
(***************************************************************************)

\* a handler that sets MSTATUS.MIE before its MRET: CSRRSI x0, mstatus, 8
NestingProgram ==
    [code |-> <<I_ADDI(1, 1, 1), I_ADDI(1, 1, 1), I_ADDI(1, 1, 1), I_ECALL,
                I_CSR(6, 0, MSTATUS, 8), I_MRET>>,
     csrs |-> {}]

\* programs with the handler at word 4, where a direct MTVEC points
CyclePrograms ==
    {p \in Programs : p.csrs = {} /\ p.code[5] = I_MRET} \cup {NestingProgram}

CycleCfgs == {q \in IrqCfgs : q.mtvec = MtvecDirect /\ "mtime" \notin DOMAIN q}

\* the value the harness raises mtimecmp to
CycleCmp == BitsOf(100)

\* bus.write64(CLINT_BASE + MTIMECMP_OFFSET, 100) in the handler
RaiseCmp ==
    /\ ev.op = "step"
    /\ ev.did = "interrupt"
    /\ ~fatal
    /\ clint.mtimecmp # CycleCmp
    /\ \E w \in {Bus_write64(Cpu.bus, Add64(CLINT_BASE, BitsOf(MTIMECMP_OFFSET)),
                             CycleCmp)} :
          /\ clint' = w.bus.clint
          /\ reservations' = w.bus.reservations
    /\ UNCHANGED <<regs, csr, pc, mode, halted, memory, uart, fatal, ev, prev,
                   entry, log>>

\* bus.write32(CLINT_BASE, 0) in the handler
ClearMsip ==
    /\ ev.op = "step"
    /\ ev.did = "interrupt"
    /\ ~fatal
    /\ clint.msip
    /\ \E w \in {Bus_write32(Cpu.bus, CLINT_BASE, {})} :
          /\ clint' = w.bus.clint
          /\ reservations' = w.bus.reservations
    /\ UNCHANGED <<regs, csr, pc, mode, halted, memory, uart, fatal, ev, prev,
                   entry, log>>

\* cpu.step()
CycleStep ==
    /\ ev.op \in {"setup", "step"}
    /\ ~fatal
    /\ Ltu(clint.mtime, BitsOf(MaxTime))
    /\ \E r \in step_outcomes(Cpu) :
          /\ Install(r.cpu)
          /\ ev' = Event("step", r.did, r.inst, 0)
          /\ log' = Append(log, [did |-> r.did, inst |-> r.inst,
                                  before |-> Csr_read(csr, MSTATUS),
                                  after |-> Csr_read(r.cpu.csr, MSTATUS),
                                  mepc |-> Csr_read(r.cpu.csr, MEPC),
                                  mcause |-> Csr_read(r.cpu.csr, MCAUSE)])
    /\ prev' = Cpu
    /\ UNCHANGED entry

NextCycle ==
    \/ \E p \in CyclePrograms, mo \in Modes, q \in CycleCfgs :
          Setup(p, mo, MSTATUS_MIE, q)
    \/ RaiseCmp
    \/ ClearMsip
    \/ CycleStep

SpecCycle == Init /\ [][NextCycle]_vars

(***************************************************************************)
(* Properties.  After a step, prev is the CPU the step started from, ev    *)
(* tells what the step did and which word it fetched, and entry describes  *)
(* the last trap entry.                                                    *)
(***************************************************************************)
MstatusOf(c) == Csr_read(c.csr, MSTATUS)

BitSet(v, mask) == (v \cap mask) # {}

MppOf(c) == NatOf(Shr(MstatusOf(c) \cap MSTATUS_MPP, 11))

ModeOfCode(k) ==
    CASE k = 0 -> "User" [] k = 1 -> "Supervisor" [] k = 3 -> "Machine"
      [] OTHER -> "none"

Stepped == ev.op = "step"

Executed == Stepped /\ ev.did = "exec"

Interrupted == Stepped /\ ev.did = "interrupt"

\* the last step entered a trap: an interrupt, or ECALL or EBREAK
Trapped == Interrupted \/ (Executed /\ IsTrapInst(ev.inst))

IsMret(inst) ==
    opcode(inst) = SYSTEM /\ funct3(inst) = 0 /\ funct7(inst) = 24 /\ rs2(inst) = 2

IsSret(inst) ==
    opcode(inst) = SYSTEM /\ funct3(inst) = 0 /\ funct7(inst) = 8 /\ rs2(inst) = 2

\* the opcodes whose instructions have an rd field
HasRd == {OP_IMM, OP, LOAD, JAL, JALR, LUI, AUIPC, SYSTEM}

\* C1: register x0 reads as zero in every reachable state; a write_reg to
\* index 0 and an executed instruction whose rd field is 0 change no general
\* register.
C1_X0Zero ==
    /\ read_reg(Cpu, 0) = {}
    /\ (ev.op = "write_reg" /\ ev.idx = 0) => regs = prev.regs
    /\ (Executed /\ opcode(ev.inst) \in HasRd /\ rd(ev.inst) = 0)
         => regs = prev.regs

\* a load with rd = 0 has executed, and write_reg had made x1 non-zero before
C1_Witness ==
    /\ Executed
    /\ opcode(ev.inst) = LOAD
    /\ rd(ev.inst) = 0
    /\ regs[1] # {}

\* the cause a trap entered by the last step was given
CausesOfLastTrap ==
    IF Interrupted
    THEN {INTERRUPT_BIT \cup k : k \in {INTERRUPT_FROM_SOFTWARE,
                                       INTERRUPT_FROM_TIMER,
                                       INTERRUPT_FROM_EXTERNAL}}
    ELSE IF rs2(ev.inst) = 1 THEN {BREAKPOINT}
    ELSE CASE prev.mode = "Machine" -> {ECALL_FROM_M}
           [] prev.mode = "Supervisor" -> {ECALL_FROM_S}
           [] prev.mode = "User" -> {ECALL_FROM_U}

MstatusTrapFields == MSTATUS_MIE \cup MSTATUS_MPIE \cup MSTATUS_MPP

\* C2: a trap entry, from any mode and any MSTATUS value, leaves MEPC = the PC
\* before the trap, MCAUSE = the cause, MTVAL = the tval (0 from every caller),
\* MPIE = the old MIE, MIE = 0, MPP = the old mode's code and mode = Machine,
\* and changes no other MSTATUS bit, no general register and no memory.
C2_TrapEntry ==
    Trapped =>
      /\ Csr_read(csr, MEPC) = prev.pc
      /\ Csr_read(csr, MCAUSE) \in CausesOfLastTrap
      /\ Csr_read(csr, MTVAL) = {}
      /\ BitSet(MstatusOf(Cpu), MSTATUS_MPIE) = BitSet(MstatusOf(prev), MSTATUS_MIE)
      /\ ~BitSet(MstatusOf(Cpu), MSTATUS_MIE)
      /\ MppOf(Cpu) = ModeCode(prev.mode)
      /\ mode = "Machine"
      /\ MstatusOf(Cpu) \ MstatusTrapFields = MstatusOf(prev) \ MstatusTrapFields
      /\ regs = prev.regs
      /\ memory = prev.bus.memory

\* an ECALL from User mode has trapped with MIE set and other MSTATUS bits set
C2_Witness ==
    /\ Executed
    /\ IsTrapInst(ev.inst)
    /\ rs2(ev.inst) = 0
    /\ prev.mode = "User"
    /\ BitSet(MstatusOf(prev), MSTATUS_MIE)
    /\ 13 \in MstatusOf(prev)

\* C3: after an MRET executed with MPP in {0, 1, 3}, PC = MEPC, MIE = the old
\* MPIE, MPIE = 1, MPP = 0, and the mode is the one the old MPP encoded.
C3_Mret ==
    (Executed /\ IsMret(ev.inst) /\ MppOf(prev) \in {0, 1, 3}) =>
      /\ pc = Csr_read(prev.csr, MEPC)
      /\ BitSet(MstatusOf(Cpu), MSTATUS_MIE) = BitSet(MstatusOf(prev), MSTATUS_MPIE)
      /\ BitSet(MstatusOf(Cpu), MSTATUS_MPIE)
      /\ MppOf(Cpu) = 0
      /\ mode = ModeOfCode(MppOf(prev))

\* an MRET has executed in Machine mode with MPP = 1 and MPIE set
C3_Witness ==
    /\ Executed
    /\ IsMret(ev.inst)
    /\ prev.mode = "Machine"
    /\ MppOf(prev) = 1
    /\ BitSet(MstatusOf(prev), MSTATUS_MPIE)
    /\ Csr_read(prev.csr, MEPC) # {}

\* the last step was an MRET that found MEPC and MSTATUS as the last trap
\* entry left them
ReturnedFromTrap ==
    /\ Executed
    /\ IsMret(ev.inst)
    /\ entry.valid
    /\ Csr_read(prev.csr, MEPC) = entry.mepc
    /\ MstatusOf(prev) = entry.mstatus

\* C4: a trap followed by an MRET, with MEPC and MSTATUS untouched in between,
\* restores the PC, the mode and MSTATUS.MIE of before the trap, and leaves
\* MPP = 0 and MPIE = 1.
C4_TrapMretRoundTrip ==
    ReturnedFromTrap =>
      /\ pc = entry.pc
      /\ mode = entry.mode
      /\ BitSet(MstatusOf(Cpu), MSTATUS_MIE) = entry.mie
      /\ MppOf(Cpu) = 0
      /\ BitSet(MstatusOf(Cpu), MSTATUS_MPIE)

\* the handler's MRET has returned to User mode with MIE set
C4_Witness ==
    /\ ReturnedFromTrap
    /\ entry.mode = "User"
    /\ entry.mie
    /\ mode = "User"

MipLines == MIP_MSIP \cup MIP_MTIP \cup MIP_MEIP

\* MIP as the refresh of a step starting from c leaves it: the three device
\* lines after the input drain and the tick
RefreshedMip(c) ==
    LET b == Bus_tick(Bus_receive_uart_input(c.bus))
    IN (Csr_read(c.csr, MIP) \ MipLines)
         \cup (IF Geu(b.clint.mtime, b.clint.mtimecmp) THEN MIP_MTIP ELSE {})
         \cup (IF b.clint.msip THEN MIP_MSIP ELSE {})
         \cup (IF check_interrupt(b.uart) THEN MIP_MEIP ELSE {})

\* the sources pending after the refresh and enabled in the MIE register
PendingEnabled(c) == RefreshedMip(c) \cap Csr_read(c.csr, MIE) \cap MipLines

\* C5: a step takes an interrupt trap if and only if MSTATUS.MIE is set and
\* some source is pending in MIP after the refresh and enabled in MIE; in every
\* other case the step goes on to the instruction at PC.
C5_InterruptGate ==
    Stepped =>
      /\ Interrupted <=> (BitSet(MstatusOf(prev), MSTATUS_MIE)
                            /\ PendingEnabled(prev) # {})
      /\ Executed => ev.inst = ReadLe(prev.bus.memory, DramIndex(prev.pc), 4)

\* a step in User mode executed its instruction with a source pending and
\* enabled, MSTATUS.MIE being clear
C5_Witness ==
    /\ Executed
    /\ prev.mode = "User"
    /\ ~BitSet(MstatusOf(prev), MSTATUS_MIE)
    /\ PendingEnabled(prev) # {}

HighestPriority(pe) ==
    IF pe \cap MIP_MSIP # {} THEN INTERRUPT_FROM_SOFTWARE
    ELSE IF pe \cap MIP_MTIP # {} THEN INTERRUPT_FROM_TIMER
    ELSE INTERRUPT_FROM_EXTERNAL

\* C6: when several interrupts are pending and enabled in a step, one trap is
\* taken (MEPC and MPP are those of the interrupted program) and its cause is
\* the first of software, timer, external.
C6_InterruptPriority ==
    (Interrupted /\ Cardinality(PendingEnabled(prev)) >= 2) =>
      /\ Csr_read(csr, MCAUSE) = INTERRUPT_BIT \cup HighestPriority(PendingEnabled(prev))
      /\ Csr_read(csr, MEPC) = prev.pc
      /\ MppOf(Cpu) = ModeCode(prev.mode)

\* software, timer and external were all pending and enabled
C6_Witness ==
    /\ Interrupted
    /\ PendingEnabled(prev) = MipLines

\* the step started with MSTATUS.MIE and MIE.MTIE set
TimerArmed(c) ==
    /\ BitSet(MstatusOf(c), MSTATUS_MIE)
    /\ BitSet(Csr_read(c.csr, MIE), MIE_MTIE)

\* mtime as the tick of a step starting from c leaves it
TickedTime(c) == Add64(c.bus.clint.mtime, {0})

\* the last step took the timer trap before its instruction
TimerTrapTaken ==
    /\ Interrupted
    /\ Csr_read(csr, MCAUSE) = INTERRUPT_BIT \cup INTERRUPT_FROM_TIMER
    /\ Csr_read(csr, MEPC) = prev.pc
    /\ clint.mtime = TickedTime(prev)
    /\ regs = prev.regs
    /\ memory = prev.bus.memory

\* C7 as stated: with MSTATUS.MIE and MIE.MTIE set, a step whose tick leaves
\* mtime below mtimecmp executes its instruction, and the step whose tick makes
\* mtime equal mtimecmp takes the timer trap.
C7_TimerOrderAsStated ==
    (Stepped /\ TimerArmed(prev)) =>
      /\ Ltu(TickedTime(prev), prev.bus.clint.mtimecmp) => ~Interrupted
      /\ TickedTime(prev) = prev.bus.clint.mtimecmp => TimerTrapTaken

\* C7: a step drains input, ticks, refreshes MIP and checks for interrupts
\* before its instruction.  With MSTATUS.MIE and MIE.MTIE set: a step whose
\* tick leaves mtime below mtimecmp executes its instruction if no software or
\* external interrupt is pending and enabled; the step whose tick makes mtime
\* equal mtimecmp takes the timer trap before its instruction, with MEPC = the
\* PC of that instruction and no register or memory effect, if no software
\* interrupt is pending and enabled.
C7_TimerOrder ==
    /\ Interrupted =>
         /\ uart = receive_input(prev.bus.uart)
         /\ clint.mtime = TickedTime(prev)
         /\ Csr_read(csr, MIP) = RefreshedMip(prev)
    /\ (Stepped /\ TimerArmed(prev)) =>
         /\ (/\ Ltu(TickedTime(prev), prev.bus.clint.mtimecmp)
             /\ PendingEnabled(prev) \cap (MIP_MSIP \cup MIP_MEIP) = {})
              => ~Interrupted
         /\ (/\ TickedTime(prev) = prev.bus.clint.mtimecmp
             /\ PendingEnabled(prev) \cap MIP_MSIP = {})
              => TimerTrapTaken

\* the timer trap was taken by the second step of a run, whose tick made
\* mtime equal mtimecmp, after a first step that executed; the instruction it
\* kept from executing is a store
C7_Witness ==
    /\ TimerTrapTaken
    /\ TimerArmed(prev)
    /\ clint.mtime = clint.mtimecmp
    /\ clint.mtime = {1}
    /\ prev.pc = WordAddr(1)
    /\ opcode(ReadLe(memory, DramIndex(prev.pc), 4)) = STORE

\* the result of SRET: Supervisor if SPP was set, else User
SretTarget(c) ==
    IF BitSet(Csr_read(c.csr, SSTATUS), SSTATUS_SPP) THEN "Supervisor" ELSE "User"

\* C8: the mode changes only by the transitions of the table (to Machine on a
\* trap; from Machine to the mode in MPP on MRET; from Supervisor to the mode
\* SPP selects on SRET), and no step that begins in User or Supervisor mode
\* and takes no trap ends in a more privileged mode.
C8_ModeTransitions ==
    (Stepped /\ ev.did # "fatal") =>
      /\ \/ mode = prev.mode
         \/ Trapped /\ mode = "Machine"
         \/ /\ Executed /\ IsMret(ev.inst)
            /\ prev.mode = "Machine"
            /\ mode = ModeOfCode(MppOf(prev))
         \/ /\ Executed /\ IsSret(ev.inst)
            /\ prev.mode = "Supervisor"
            /\ mode = SretTarget(prev)
      /\ (prev.mode \in {"User", "Supervisor"} /\ ~Trapped)
           => ModeCode(mode) <= ModeCode(prev.mode)

\* C9: the LSR register reflects the queues exactly: DR iff rx_fifo is
\* non-empty, THRE iff tx_fifo is empty, TEMT iff tx_fifo and tsr are empty.
C9_LsrExact ==
    /\ BitSet(uart.lsr, LSR_DR) <=> uart.rx_fifo # <<>>
    /\ BitSet(uart.lsr, LSR_THRE) <=> uart.tx_fifo = <<>>
    /\ BitSet(uart.lsr, LSR_TEMT) <=> (uart.tx_fifo = <<>> /\ uart.tsr = <<>>)

\* C10: IIR and the interrupt line follow the priority rule: 0xC4 and asserted
\* if IER.RX_ENABLE and rx_fifo is non-empty; else 0xC2 and asserted if
\* IER.TX_ENABLE and tx_fifo is empty; else 0xC1 and deasserted.
C10_IirPriority ==
    IF BitSet(uart.ier, IER_RX_ENABLE) /\ uart.rx_fifo # <<>>
    THEN uart.iir = {2, 6, 7} /\ check_interrupt(uart)
    ELSE IF BitSet(uart.ier, IER_TX_ENABLE) /\ uart.tx_fifo = <<>>
    THEN uart.iir = {1, 6, 7} /\ check_interrupt(uart)
    ELSE uart.iir = {0, 6, 7} /\ ~check_interrupt(uart)

\* the last bus operation of the log
LastOp == log[Len(log)]

LastIsWrite == log # <<>> /\ LastOp.k = "write"

\* C11: after a bus write of any width to address A (by the bus interface or
\* by a store instruction), in whatever region A lies, no hart that had
\* reserved A holds a reservation, every hart that had reserved another
\* address still holds it, and no reservation has appeared.
C11_WriteInvalidates ==
    LastIsWrite =>
        \A h \in Harts :
            IF h \in DOMAIN prev.bus.reservations
                 /\ prev.bus.reservations[h] # LastOp.addr
            THEN /\ h \in DOMAIN reservations
                 /\ reservations[h] = prev.bus.reservations[h]
            ELSE h \notin DOMAIN reservations

\* an SD instruction has stored 8 bytes at DramAligned: hart 1's reservation
\* of that address is gone, hart 0's reservation of the next byte is kept
C11_Witness ==
    /\ LastIsWrite
    /\ Executed
    /\ opcode(ev.inst) = STORE
    /\ funct3(ev.inst) = 3
    /\ LastOp.addr = DramAligned
    /\ check_reservation(prev.bus, 1, DramAligned)
    /\ check_reservation(prev.bus, 0, DramUnaligned)
    /\ ~check_reservation(Cpu.bus, 1, DramAligned)
    /\ check_reservation(Cpu.bus, 0, DramUnaligned)

\* the positions of the log where hart h reserved
ReservesOf(h) ==
    {i \in 1..Len(log) : log[i].k = "reserve" /\ log[i].hart = h}

\* hart h's most recent reserve was for a, and since then there was neither
\* a clear_reservation(h) nor a bus write to a
LiveReservation(h, a) ==
    /\ ReservesOf(h) # {}
    /\ LET i == CHOOSE x \in ReservesOf(h) : \A y \in ReservesOf(h) : y <= x
       IN /\ log[i].addr = a
          /\ \A j \in (i + 1)..Len(log) :
                /\ ~(log[j].k = "clear" /\ log[j].hart = h)
                /\ ~(log[j].k = "write" /\ log[j].addr = a)

CheckedAddrs == {DramAligned, DramUnaligned, DramLast, UartScratch, ClintCmp}

\* C12: each hart holds at most one reserved address, and
\* check_reservation(h, a) is true exactly when h's most recent reserve was
\* for a with no clear_reservation(h) and no bus write to a since; reserve
\* and clear_reservation of one hart leave the other harts' reservations.
C12_ReservationTable ==
    /\ DOMAIN reservations \subseteq Harts
    /\ \A h \in Harts : \A a \in CheckedAddrs :
          check_reservation(Cpu.bus, h, a) <=> LiveReservation(h, a)
    /\ (log # <<>> /\ LastOp.k \in {"reserve", "clear"}) =>
          \A h \in Harts \ {LastOp.hart} : \A a \in CheckedAddrs :
             check_reservation(Cpu.bus, h, a)
                <=> check_reservation(prev.bus, h, a)

\* hart 0 reserved one address and then another while hart 1 held one: only
\* hart 0's second address is reserved by it, hart 1's is untouched
C12_Witness ==
    /\ Len(log) = 3
    /\ log[1].k = "reserve" /\ log[1].hart = 1
    /\ log[2].k = "reserve" /\ log[2].hart = 0
    /\ log[3].k = "reserve" /\ log[3].hart = 0
    /\ log[2].addr # log[3].addr
    /\ ~check_reservation(Cpu.bus, 0, log[2].addr)
    /\ check_reservation(Cpu.bus, 0, log[3].addr)
    /\ check_reservation(Cpu.bus, 1, log[1].addr)

MtimeAddr == Add64(CLINT_BASE, BitsOf(MTIME_OFFSET))

\* the last step executed an SD to the mtime register
StoredToMtime ==
    /\ Executed
    /\ opcode(ev.inst) = STORE
    /\ Add64(read_reg(prev, rs1(ev.inst)), imm_s(ev.inst)) = MtimeAddr

\* the last step executed an LD from the mtime register into a register
\* other than x0
LoadedMtime ==
    /\ Executed
    /\ opcode(ev.inst) = LOAD
    /\ funct3(ev.inst) = 3
    /\ rd(ev.inst) # 0
    /\ Add64(read_reg(prev, rs1(ev.inst)), imm_i(ev.inst)) = MtimeAddr

\* C13: a completed step that does not store to mtime leaves mtime one above
\* its value before the step (in 64-bit arithmetic), whether it executed an
\* instruction or took an interrupt trap; the tick comes first: the interrupt
\* check of a trapping step saw MTIP computed from the incremented mtime, and
\* an LD of mtime in the step reads the incremented value.
C13_MtimeTick ==
    /\ (Stepped /\ ~fatal /\ ~StoredToMtime) => clint.mtime = TickedTime(prev)
    /\ Interrupted =>
          (BitSet(Csr_read(csr, MIP), MIP_MTIP)
             <=> Geu(TickedTime(prev), prev.bus.clint.mtimecmp))
    /\ LoadedMtime => read_reg(Cpu, rd(ev.inst)) = TickedTime(prev)

\* a step took the timer trap in the step whose tick made mtime reach
\* mtimecmp, and mtime is one above its value before that step
C13_Witness ==
    /\ Interrupted
    /\ Ltu(prev.bus.clint.mtime, prev.bus.clint.mtimecmp)
    /\ Csr_read(csr, MCAUSE) = INTERRUPT_BIT \cup INTERRUPT_FROM_TIMER
    /\ clint.mtime = Add64(prev.bus.clint.mtime, {0})
    /\ clint.mtime # {0}

\* the last step executed a CSR instruction that addresses MIP
CsrInstOnMip ==
    /\ Executed
    /\ opcode(ev.inst) = SYSTEM
    /\ funct3(ev.inst) # 0
    /\ csr_addr(ev.inst) = MIP

\* C14: the interrupt check of every step, with MSTATUS.MIE set or clear,
\* leaves MIP.MTIP = (mtime >= mtimecmp) after the tick, MIP.MSIP = the CLINT
\* msip bit and MIP.MEIP = the UART interrupt line, whatever these bits were
\* before, and every other MIP bit as it was: this is MIP after a step that
\* does not itself address MIP, and the value a CSR read of MIP in the step
\* returns.
C14_MipMirror ==
    /\ (Stepped /\ ~fatal /\ ~CsrInstOnMip) =>
          Csr_read(csr, MIP) = RefreshedMip(prev)
    /\ (CsrInstOnMip /\ rd(ev.inst) # 0) =>
          read_reg(Cpu, rd(ev.inst)) = RefreshedMip(prev)

\* with MSTATUS.MIE clear, MIP had MTIP, MSIP and bit 5 set by a CSR write
\* while the timer and software lines were low: the step cleared MTIP and
\* MSIP and kept bit 5
C14_Witness ==
    /\ Executed
    /\ ~BitSet(MstatusOf(prev), MSTATUS_MIE)
    /\ (MIP_MTIP \cup MIP_MSIP \cup {5}) \subseteq Csr_read(prev.csr, MIP)
    /\ Ltu(clint.mtime, clint.mtimecmp)
    /\ ~prev.bus.clint.msip
    /\ Csr_read(csr, MIP) \cap (MIP_MTIP \cup MIP_MSIP \cup {5}) = {5}

\* DRAM_BASE <= a < DRAM_BASE + DRAM_SIZE
WithinDram(a) == Geu(a, DRAM_BASE) /\ Ltu(a, Add64(DRAM_BASE, DRAM_SIZE))

\* the trap targets MTVEC yields: the base, and the vectored entries of the
\* three interrupt causes
MtvecTargets(c) ==
    LET base == Csr_read(c.csr, MTVEC) \ {0, 1}
    IN {base} \cup {Add64(base, Shl(cause, 2)) :
                      cause \in {INTERRUPT_FROM_SOFTWARE, INTERRUPT_FROM_TIMER,
                                 INTERRUPT_FROM_EXTERNAL}}

\* C15: in every state reached by loading a program and stepping it, PC lies
\* within DRAM or equals a trap target computed from MTVEC.
C15_PcWithinDram ==
    ~fatal => (WithinDram(pc) \/ pc \in MtvecTargets(Cpu))

\* the last bus operation wrote LastOp.w bytes that all lie within DRAM
LastIsDramWrite ==
    /\ LastIsWrite
    /\ ~fatal
    /\ WithinDram(LastOp.addr)
    /\ WithinDram(Add64(LastOp.addr, BitsOf(LastOp.w - 1)))

\* byte i of value v
ByteOf(v, i) == Shr(v, 8 * i) \cap (0..7)

\* C16: after a write of width w in {1, 2, 4, 8} of value v at an address a
\* with the whole access inside DRAM, aligned or not, a read of width w at a
\* returns v, read8(a + i) returns byte i of v for each i < w (little-endian),
\* and every DRAM byte outside [a, a + w) is as it was before the write.
C16_MemoryRoundTrip ==
    LastIsDramWrite =>
        LET a == LastOp.addr
            w == LastOp.w
            v == LastOp.val
            touched == {NatOf(Add64(DramIndex(a), BitsOf(i))) : i \in 0..(w - 1)}
        IN /\ BusReadW(Cpu.bus, w, a) = [bus |-> Cpu.bus, val |-> v, panic |-> FALSE]
           /\ \A i \in 0..(w - 1) :
                 Bus_read8(Cpu.bus, Add64(a, BitsOf(i))).val = ByteOf(v, i)
           /\ \A k \in ((DOMAIN memory) \cup (DOMAIN prev.bus.memory)) \ touched :
                 ByteAt(memory, BitsOf(k)) = ByteAt(prev.bus.memory, BitsOf(k))

\* an 8-byte write at the unaligned address over bytes that earlier writes
\* had set, with a set byte just below the range left as it was
C16_Witness ==
    /\ LastIsDramWrite
    /\ LastOp.w = 8
    /\ LastOp.addr = DramUnaligned
    /\ LastOp.val = ValueB
    /\ ByteAt(prev.bus.memory, DramIndex(DramAligned)) # {}
    /\ ByteAt(prev.bus.memory, DramIndex(DramUnaligned)) # {}
    /\ ByteAt(memory, DramIndex(DramAligned))
          = ByteAt(prev.bus.memory, DramIndex(DramAligned))
    /\ Bus_read64(Cpu.bus, DramUnaligned).val = ValueB

\* the low two bits of MTVEC before the last step
MtvecMode(c) == NatOf(Csr_read(c.csr, MTVEC) \cap {0, 1})

\* MTVEC & ~3 before the last step
MtvecBase(c) == Csr_read(c.csr, MTVEC) \ {0, 1}

\* C17: a trap entry sets PC from MTVEC with base = MTVEC & ~3: with the low
\* two bits 0 (Direct) every trap goes to base; with the low two bits 1
\* (Vectored) an interrupt goes to base + 4 * (cause & 0x3FF) and an ECALL or
\* EBREAK goes to base.
C17_TrapVector ==
    Trapped =>
      /\ MtvecMode(prev) = 0 => pc = MtvecBase(prev)
      /\ (MtvecMode(prev) = 1 /\ Interrupted)
           => pc = Add64(MtvecBase(prev),
                         BitsOf(4 * NatOf(Csr_read(csr, MCAUSE) \cap (0..9))))
      /\ (MtvecMode(prev) = 1 /\ Executed) => pc = MtvecBase(prev)

\* a timer interrupt has been taken with MTVEC in vectored mode
C17_Witness ==
    /\ Interrupted
    /\ MtvecMode(prev) = 1
    /\ Csr_read(csr, MCAUSE) = INTERRUPT_BIT \cup INTERRUPT_FROM_TIMER
    /\ pc = Add64(MtvecBase(prev), {2, 3, 4})

\* the cause number an ECALL (rs2 field 0) or EBREAK (rs2 field 1) executed
\* in mode m reports
ExceptionCause(inst, m) ==
    IF rs2(inst) = 1 THEN 3
    ELSE CASE m = "User" -> 8 [] m = "Supervisor" -> 9 [] m = "Machine" -> 11

\* C18: an executed ECALL leaves MCAUSE = 8 from User mode, 9 from Supervisor
\* mode and 11 from Machine mode, and an executed EBREAK leaves MCAUSE = 3
\* from every mode; in each case MEPC is the address the instruction was
\* fetched from, MTVAL is 0, and PC is the trap target (the MTVEC base),
\* not advanced by 4.
C18_EcallEbreak ==
    (Executed /\ IsTrapInst(ev.inst)) =>
      /\ Csr_read(csr, MCAUSE) = BitsOf(ExceptionCause(ev.inst, prev.mode))
      /\ Csr_read(csr, MEPC) = prev.pc
      /\ Bus_read32(prev.bus, Csr_read(csr, MEPC)).val = ev.inst
      /\ Csr_read(csr, MTVAL) = {}
      /\ pc = MtvecBase(prev)

\* an EBREAK at word 3 of its program has trapped from Supervisor mode
C18_Witness ==
    /\ Executed
    /\ ev.inst = I_EBREAK
    /\ prev.mode = "Supervisor"
    /\ prev.pc = WordAddr(3)
    /\ Csr_read(csr, MCAUSE) = {0, 1}

SstatusOf(c) == Csr_read(c.csr, SSTATUS)

\* C19: after an executed SRET, PC = SEPC (not advanced by 4), SSTATUS.SIE =
\* the old SPIE, SSTATUS.SPIE = 1, SSTATUS.SPP = 0, and the mode is Supervisor
\* if the old SPP was 1 and User otherwise.
C19_Sret ==
    (Executed /\ IsSret(ev.inst)) =>
      /\ pc = Csr_read(prev.csr, SEPC)
      /\ BitSet(SstatusOf(Cpu), SSTATUS_SIE) = BitSet(SstatusOf(prev), SSTATUS_SPIE)
      /\ BitSet(SstatusOf(Cpu), SSTATUS_SPIE)
      /\ ~BitSet(SstatusOf(Cpu), SSTATUS_SPP)
      /\ mode = IF BitSet(SstatusOf(prev), SSTATUS_SPP) THEN "Supervisor"
                ELSE "User"

\* an SRET has executed in Supervisor mode with SIE set and SPIE and SPP clear
C19_Witness ==
    /\ Executed
    /\ IsSret(ev.inst)
    /\ prev.mode = "Supervisor"
    /\ SstatusOf(prev) = SSTATUS_SIE
    /\ SstatusOf(Cpu) = SSTATUS_SPIE
    /\ pc = WordAddr(1)
    /\ mode = "User"

\* the last step executed one of the six CSR instructions
IsCsrInst ==
    /\ Executed
    /\ opcode(ev.inst) = SYSTEM
    /\ funct3(ev.inst) \in {1, 2, 3, 5, 6, 7}

\* the value t the addressed CSR had when the instruction read it (MIP is
\* refreshed by the interrupt check of the same step)
CsrOld ==
    IF csr_addr(ev.inst) = MIP THEN RefreshedMip(prev)
    ELSE Csr_read(prev.csr, csr_addr(ev.inst))

\* the operand: the value of register rs1 before the instruction, or the
\* 5-bit rs1 field zero-extended for the immediate forms
CsrMask ==
    IF funct3(ev.inst) \in {5, 6, 7} THEN BitsOf(rs1(ev.inst))
    ELSE prev.regs[rs1(ev.inst)]

\* C20: an executed CSR instruction leaves rd = the CSR value t read before the
\* write (x0 stays 0) and PC = PC + 4; CSRRW and CSRRWI leave the CSR = the
\* operand, CSRRS and CSRRSI leave it = t | operand, CSRRC and CSRRCI leave it
\* = t & ~operand, so that a zero operand of a set or clear form leaves the CSR
\* as it was; the operand of the register forms is the value rs1 had before
\* the instruction, also when rd and rs1 are the same register.  No other
\* register and no other CSR changes.
C20_CsrInstructions ==
    IsCsrInst =>
      LET f3 == funct3(ev.inst)
          a == csr_addr(ev.inst)
          d == rd(ev.inst)
      IN /\ regs = [prev.regs EXCEPT ![d] = IF d = 0 THEN @ ELSE CsrOld]
         /\ pc = Add64(prev.pc, {2})
         /\ f3 \in {1, 5} => Csr_read(csr, a) = CsrMask
         /\ f3 \in {2, 6} => Csr_read(csr, a) = CsrOld \cup CsrMask
         /\ f3 \in {3, 7} => Csr_read(csr, a) = CsrOld \ CsrMask
         /\ (f3 \in {2, 3, 6, 7} /\ CsrMask = {}) => Csr_read(csr, a) = CsrOld
         /\ \A x \in ((DOMAIN csr) \cup (DOMAIN prev.csr)) \ {a, MIP} :
               Csr_read(csr, x) = Csr_read(prev.csr, x)

\* CSRRC x1, stval, x1 has executed with x1 = 0x80000005 and stval = 0x27:
\* stval is 0x22 and x1 is 0x27
C20_Witness ==
    /\ IsCsrInst
    /\ ev.inst = I_CSR(3, 1, STVAL, 1)
    /\ prev.regs[1] = {0, 2, 31}
    /\ Csr_read(prev.csr, STVAL) = {0, 1, 2, 5}
    /\ Csr_read(csr, STVAL) = {1, 5}
    /\ regs[1] = {0, 1, 2, 5}

\* the word is a CSRRW
IsCsrrw(inst) == opcode(inst) = SYSTEM /\ funct3(inst) = 1

\* the step just taken executed CSRRW rd = c, csr, rs1 = a right after the
\* step before it had executed CSRRW rd = a, csr, rs1 = b on the same csr,
\* with a not x0 and a distinct from b; prev is the CPU before the first
SwapPair ==
    /\ Executed
    /\ IsCsrrw(ev.inst)
    /\ rd(ev.inst) # 0
    /\ rd(ev.inst) # rs1(ev.inst)
    /\ ev'.op = "step"
    /\ ev'.did = "exec"
    /\ IsCsrrw(ev'.inst)
    /\ csr_addr(ev'.inst) = csr_addr(ev.inst)
    /\ rs1(ev'.inst) = rd(ev.inst)
    /\ prev' = Cpu

\* the CSR is as before the first instruction and c holds what b held
SwapRestores ==
    /\ Csr_read(csr', csr_addr(ev.inst)) = Csr_read(prev.csr, csr_addr(ev.inst))
    /\ rd(ev'.inst) # 0 => regs'[rd(ev'.inst)] = prev.regs[rs1(ev.inst)]

\* C21 as stated: for any CSR address, CSRRW rd = a, csr, rs1 = b followed
\* by CSRRW rd = c, csr, rs1 = a (a not x0, a distinct from b) leaves the CSR
\* at the value it had before the first instruction and c with the value
\* b had.
C21_SwapAsStated == [][SwapPair => SwapRestores]_vars

\* C21: the same for every CSR address other than MIP, whose MTIP, MSIP and
\* MEIP bits every step replaces by the device lines before the instruction
\* reads them.
C21_CsrrwSwap ==
    [][(SwapPair /\ csr_addr(ev.inst) # MIP) => SwapRestores]_vars

\* the second CSRRW of a pair on stval has executed: stval is 0x89 again and
\* x3 holds the 0x80000005 that x1 held
C21_Witness ==
    /\ Executed
    /\ ev.inst = I_CSR(1, 3, STVAL, 2)
    /\ prev.pc = WordAddr(1)
    /\ Csr_read(prev.csr, STVAL) = {0, 2, 31}
    /\ prev.regs[2] = {0, 3, 7}
    /\ Csr_read(csr, STVAL) = {0, 3, 7}
    /\ regs[3] = {0, 2, 31}

\* the last step fetched instruction word with opcode op
Fetched(op) == Stepped /\ ev.inst # {} /\ opcode(ev.inst) = op

\* the last step ran to the end of an instruction that is no trap or return:
\* PC + 4, the mode, and the trap CSRs as they were
Completed ==
    /\ ~fatal
    /\ Executed
    /\ pc = Add64(prev.pc, {2})
    /\ mode = prev.mode
    /\ \A x \in {MEPC, MCAUSE, MTVAL} : Csr_read(csr, x) = Csr_read(prev.csr, x)

\* the last step fetched DIV, DIVU, REM or REMU x3, x1, x2
IsDivRem64 == Fetched(OP) /\ funct7(ev.inst) = 1 /\ funct3(ev.inst) \in 4..7

\* C22: for all operands, DIV and DIVU by zero write all ones to rd, REM and
\* REMU by zero write the dividend, DIV of i64::MIN by -1 writes i64::MIN and
\* REM of i64::MIN by -1 writes 0, and every DIV, DIVU, REM, REMU completes
\* without ending the emulator and without a trap.
C22_DivRem64 ==
    IsDivRem64 =>
      LET f3 == funct3(ev.inst)
          a == prev.regs[rs1(ev.inst)]
          b == prev.regs[rs2(ev.inst)]
          res == regs[rd(ev.inst)]
      IN /\ Completed
         /\ (b = {} /\ f3 \in {4, 5}) => res = 0..63
         /\ (b = {} /\ f3 \in {6, 7}) => res = a
         /\ (a = {63} /\ b = 0..63 /\ f3 = 4) => res = {63}
         /\ (a = {63} /\ b = 0..63 /\ f3 = 6) => res = {}

\* DIV x3, x1, x2 has completed with x1 = i64::MIN and x2 = -1
C22_Witness ==
    /\ IsDivRem64
    /\ funct3(ev.inst) = 4
    /\ prev.regs[1] = {63}
    /\ prev.regs[2] = 0..63
    /\ regs[3] = {63}
    /\ ~fatal

\* the CPU the last step started from, with the upper 32 bits of every
\* register cleared
PrevLow32 == [prev EXCEPT !.regs = [i \in DOMAIN prev.regs |-> ZeroExt(prev.regs[i], 32)]]

\* C23: the value every executed OP-IMM-32 and OP-32 instruction writes to rd
\* is the one it writes when the upper 32 bits of the register operands are
\* cleared, and is the sign-extension of its own low 32 bits.
C23_Word32Results ==
    (Executed /\ opcode(ev.inst) \in {OP_IMM_32, OP_32}) =>
      LET res == regs[rd(ev.inst)]
      IN /\ res = execute(PrevLow32, ev.inst).regs[rd(ev.inst)]
         /\ res = SignExt(res, 32)

\* the last step fetched SLLIW, SRLIW or SRAIW (any bits above the shift
\* amount that select between SRLIW and SRAIW)
IsShiftImm32 == Fetched(OP_IMM_32) /\ funct3(ev.inst) \in {1, 5}

\* the last step fetched SLLW, SRLW or SRAW
IsShiftReg32 ==
    /\ Fetched(OP_32)
    /\ \/ funct3(ev.inst) = 1 /\ funct7(ev.inst) = 0
       \/ funct3(ev.inst) = 5 /\ funct7(ev.inst) \in {0, 32}

\* C24: SLLIW, SRLIW, SRAIW with a shamt field s in 0..63 and SLLW, SRLW,
\* SRAW with any rs2 complete and write what the same instruction writes
\* with the shift amount s mod 32 (bit 5 of the shamt field or of rs2
\* cleared); no shift amount ends the emulator.
C24_ShiftMod32 ==
    /\ IsShiftImm32 =>
          /\ Completed
          /\ regs[rd(ev.inst)]
                = execute(prev, ev.inst \ {25}).regs[rd(ev.inst)]
    /\ IsShiftReg32 =>
          /\ Completed
          /\ regs[rd(ev.inst)]
                = execute([prev EXCEPT !.regs[rs2(ev.inst)] = @ \cap (0..4)],
                          ev.inst).regs[rd(ev.inst)]

\* the last step fetched DIVW, DIVUW, REMW or REMUW x3, x1, x2
IsDivRem32 == Fetched(OP_32) /\ funct7(ev.inst) = 1 /\ funct3(ev.inst) \in 4..7

\* C25: DIVW, DIVUW, REMW, REMUW complete for every operand pair; when the
\* low 32 bits of rs2 are zero, whatever its upper bits, DIVW and DIVUW
\* write all ones and REMW and REMUW write the sign-extended low 32 bits of
\* rs1; DIVW of i32::MIN by -1 writes the sign-extended i32::MIN.
C25_DivRem32 ==
    IsDivRem32 =>
      LET f3 == funct3(ev.inst)
          a == prev.regs[rs1(ev.inst)]
          b == prev.regs[rs2(ev.inst)]
          res == regs[rd(ev.inst)]
      IN /\ Completed
         /\ (ZeroExt(b, 32) = {} /\ f3 \in {4, 5}) => res = 0..63
         /\ (ZeroExt(b, 32) = {} /\ f3 \in {6, 7}) => res = SignExt(a, 32)
         /\ (ZeroExt(a, 32) = {31} /\ ZeroExt(b, 32) = 0..31 /\ f3 = 4)
              => res = 31..63

\* C26: a step that takes no interrupt and completes leaves PC = old PC + 4,
\* except for JAL, JALR, a taken branch, ECALL, EBREAK, MRET and SRET; a
\* branch not taken and every CSR instruction advance by 4; a taken branch
\* sets PC = old PC + sign_ext(imm_b); JALR sets PC = (old rs1 +
\* sign_ext(imm_i)) with bit 0 cleared and rd = old PC + 4, also when rd is
\* rs1.
C26_PcAdvance ==
    Executed =>
      LET inst == ev.inst
          op == opcode(inst)
          next == Add64(prev.pc, {2})
      IN CASE op = JAL -> TRUE
           [] op = JALR ->
                /\ pc = Add64(prev.regs[rs1(inst)], imm_i(inst)) \ {0}
                /\ rd(inst) # 0 => regs[rd(inst)] = next
           [] op = BRANCH ->
                pc = IF execute_branch(prev, inst).taken
                     THEN Add64(prev.pc, imm_b(inst))
                     ELSE next
           [] IsTrapInst(inst) \/ IsMret(inst) \/ IsSret(inst) -> TRUE
           [] OTHER -> pc = next

\* JALR x1, x1, 7 has run with x1 = 7: PC = 14 and x1 = old PC + 4
C26_Witness ==
    /\ Executed
    /\ opcode(ev.inst) = JALR
    /\ rd(ev.inst) = 1
    /\ rs1(ev.inst) = 1
    /\ prev.regs[1] = {0, 1, 2}
    /\ pc = {1, 2, 3}
    /\ regs[1] = Add64(prev.pc, {2})

\* a byte arrives at the receive FIFO in this step: by push_input, or by
\* receive_input from a terminal that has one
ByteArrives == ev'.op \in {"push", "receive"} /\ ev'.did = "byte"

RbrRead == ev'.op = "read" /\ ev'.did = "rbr"

\* an arriving byte is appended, or discarded when 16 are queued, and
\* receive_input takes it from the terminal either way
RxArrival ==
    ByteArrives =>
       /\ uart'.rx_fifo = IF Len(uart.rx_fifo) = FIFO_CAPACITY
                          THEN uart.rx_fifo
                          ELSE Append(uart.rx_fifo, ev'.inst)
       /\ Len(uart'.rx_fifo) <= FIFO_CAPACITY
       /\ ev'.op = "receive" => uart'.terminal.input = Tail(uart.terminal.input)

\* an RBR read of a non-empty FIFO returns its oldest byte and removes it
RxInOrder ==
    (RbrRead /\ uart.rx_fifo # <<>>) =>
       /\ ev'.inst = Head(uart.rx_fifo)
       /\ uart'.rx_fifo = Tail(uart.rx_fifo)

\* an RBR read of an empty FIFO returns 0 and leaves the UART as it was
RxEmptyRead ==
    (RbrRead /\ uart.rx_fifo = <<>>) => (ev'.inst = {} /\ uart' = uart)

\* the three parts, each as a property of every step
RxArrivalAlways == [][RxArrival]_vars
RxInOrderAlways == [][RxInOrder]_vars
RxEmptyReadAlways == [][RxEmptyRead]_vars

\* C27: the RX FIFO never holds more than 16 bytes; a byte that arrives by
\* push_input or receive_input while 16 are queued is discarded (and still
\* taken from the terminal) and the queue is unchanged; RBR reads return
\* the accepted bytes in arrival order, each once; an RBR read of an empty
\* FIFO returns 0 and changes no UART state.
C27_RxFifo == [][RxArrival /\ RxInOrder /\ RxEmptyRead]_vars

\* C28: a THR write emits at most one byte, and after any sequence of THR
\* writes the terminal has received exactly the bytes written, in write
\* order, none lost or duplicated.
C28_ThrOutput == uart.terminal.output = log

\* two different bytes were written to THR and the terminal has both
C28_Witness ==
    /\ Len(log) = 2
    /\ log[1] # log[2]
    /\ uart.terminal.output = log
    /\ uart.rx_fifo # <<>>

\* the last bus access of SpecRoute and the bus it was made on
Access == log[Len(log)]

Accessed == ev.op = "bus" /\ log # <<>>

\* what the access left of the devices and of memory
DevicesAre(cl, u, mem) == clint = cl /\ uart = u /\ memory = mem

\* C29: the bus routes an access by its address.  In the CLINT range an 8-
\* or 16-bit access is fatal and a 32- or 64-bit access is the CLINT's; in
\* the UART range an access of any width is the one-byte access of that
\* offset (a read returns the byte zero-extended, a write stores the low 8
\* bits); at or above DRAM_BASE it is the memory's; anywhere else it is
\* fatal and the CLINT, the UART and memory are as they were.
C29_BusRouting ==
    Accessed =>
      LET a == Access.addr
          w == Access.w
          b == prev.bus
          rd_ == Access.k = "read"
      IN CASE InClint(a) /\ w \in {1, 2} -> fatal
           [] InClint(a) /\ w \in {4, 8} ->
                IF rd_
                THEN LET r == IF w = 4 THEN Clint_read32(b.clint, ClintOffset(a))
                              ELSE Clint_read64(b.clint, ClintOffset(a))
                     IN /\ fatal = r.panic
                        /\ ev.inst = r.val
                        /\ DevicesAre(b.clint, b.uart, b.memory)
                ELSE LET r == IF w = 4
                              THEN Clint_write32(b.clint, ClintOffset(a), Access.val)
                              ELSE Clint_write64(b.clint, ClintOffset(a), Access.val)
                     IN /\ fatal = r.panic
                        /\ DevicesAre(r.clint, b.uart, b.memory)
           [] InUart(a) ->
                IF rd_
                THEN LET r == Uart_read8(b.uart, UartOffset(a))
                     IN /\ fatal = r.panic
                        /\ ev.inst = r.val
                        /\ DevicesAre(b.clint, r.uart, b.memory)
                ELSE LET r == Uart_write8(b.uart, UartOffset(a),
                                         Access.val \cap (0..7))
                     IN /\ fatal = r.panic
                        /\ DevicesAre(b.clint, r.uart, b.memory)
           [] Geu(a, DRAM_BASE) ->
                IF rd_
                THEN LET r == Memory_read(b.memory, a, w)
                     IN /\ fatal = r.panic
                        /\ ev.inst = r.val
                        /\ DevicesAre(b.clint, b.uart, b.memory)
                ELSE LET r == Memory_write(b.memory, a, Access.val, w)
                     IN /\ fatal = r.panic
                        /\ DevicesAre(b.clint, b.uart, r.memory)
           [] OTHER -> fatal /\ DevicesAre(b.clint, b.uart, b.memory)

\* a 64-bit write of 0xF1E2D3C4B5A69788 to the UART scratch register,
\* then a 32-bit read of it that returned 0x88
C29_Witness ==
    /\ Len(log) = 2
    /\ log[1] = LogEntry("write", 0, 8, UartScratch, ValueB)
    /\ log[2] = LogEntry("read", 0, 4, UartScratch, {})
    /\ ev.inst = {3, 7}
    /\ ~fatal

\* inst is a word of none of the instructions listed for its family: an
\* opcode of no family, or a funct3 / funct7 (for the immediate shifts, the
\* immediate bits above the 6-bit shift amount) of no instruction
UnsupportedWord(inst) ==
    LET op == opcode(inst)
        f3 == funct3(inst)
        f7 == funct7(inst)
        f6 == Field(inst, 26, 6)
    IN \/ op \notin {OP_IMM, OP_IMM_32, OP, OP_32, LOAD, STORE, BRANCH, JAL,
                     JALR, LUI, AUIPC, SYSTEM}
       \/ op = OP /\ ~(f7 \in {0, 1} \/ (f7 = 32 /\ f3 \in {0, 5}))
       \/ op = OP_32
            /\ ~ \/ f7 = 0 /\ f3 \in {0, 1, 5}
                 \/ f7 = 1 /\ f3 \in {0, 4, 5, 6, 7}
                 \/ f7 = 32 /\ f3 \in {0, 5}
       \/ op = OP_IMM /\ f3 = 5 /\ f6 \notin {0, 16}
       \/ op = OP_IMM_32 /\ (f3 \notin {0, 1, 5} \/ (f3 = 5 /\ f6 \notin {0, 16}))
       \/ op = BRANCH /\ f3 \in {2, 3}
       \/ op = LOAD /\ f3 = 7
       \/ op = STORE /\ f3 \in 4..7
       \/ op = SYSTEM /\ f3 = 4
       \/ op = SYSTEM /\ f3 = 0
            /\ <<f7, rs2(inst)>> \notin {<<0, 0>>, <<0, 1>>, <<24, 2>>, <<8, 2>>}

\* the last step fetched MRET with MSTATUS.MPP = 2
MretReservedMpp ==
    IsMret(ev.inst) /\ Field(Csr_read(prev.csr, MSTATUS), 11, 2) = 2

\* C30: a step that fetches a word with an unsupported opcode or an
\* unsupported funct3 / funct7 combination, or MRET while MSTATUS.MPP = 2,
\* ends the emulator and enters no trap: MEPC, MCAUSE and MTVAL are as
\* before the step and so is the mode.
C30_FatalDecode ==
    (Stepped /\ ev.did \in {"exec", "fatal"} /\ ev.inst # {}
       /\ (UnsupportedWord(ev.inst) \/ MretReservedMpp)) =>
      /\ fatal
      /\ mode = prev.mode
      /\ \A x \in {MEPC, MCAUSE, MTVAL} : Csr_read(csr, x) = Csr_read(prev.csr, x)

\* MRET was fetched with MPP = 2 and the emulator ended in Machine mode
C30_Witness ==
    /\ Stepped
    /\ MretReservedMpp
    /\ fatal
    /\ mode = "Machine"

\* C31: SSTATUS and MSTATUS share storage: in every state, after any CSR
\* writes and steps, a read of SSTATUS returns the value held in MSTATUS (a
\* write to one is seen through the other, and SRET's update of SIE, SPIE
\* and SPP is seen in MSTATUS).
C31_SstatusAlias == Csr_read(csr, SSTATUS) = Csr_read(csr, MSTATUS)


\* the offsets into DRAM that a segment occupies: data.len() bytes of
\* data, and the zero fill up to memsz
SegOffset(seg) == NatOf(DramIndex(seg.vaddr))

SegExtent(seg) == IF seg.memsz > Len(seg.data) THEN seg.memsz ELSE Len(seg.data)

SegRange(seg) == SegOffset(seg)..(SegOffset(seg) + SegExtent(seg) - 1)

MemByte(mem, k) == IF k \in DOMAIN mem THEN mem[k] ELSE {}

\* inside DRAM and pairwise disjoint
SegmentsFit(segments) ==
    /\ \A i \in 1..Len(segments) :
          /\ Geu(segments[i].vaddr, DRAM_BASE)
          /\ IndexOk(DramIndex(segments[i].vaddr), SegExtent(segments[i]))
    /\ \A i, j \in 1..Len(segments) :
          i # j => SegRange(segments[i]) \cap SegRange(segments[j]) = {}

Loaded == ev.op = "load" /\ SegmentsFit(log[1].segs)

\* C32: after load_segments(segments, entry) with non-overlapping segments
\* inside DRAM, each segment's data bytes are in memory from vaddr on, the
\* bytes from vaddr + data.len() up to vaddr + memsz are zero whatever they
\* held before, every byte outside all segments is as it was, and PC is entry.
C32_LoadSegments ==
    Loaded =>
      /\ ~fatal
      /\ \A s \in 1..Len(log[1].segs) :
            LET seg == log[1].segs[s]
            IN /\ \A i \in 0..(Len(seg.data) - 1) :
                     MemByte(memory, SegOffset(seg) + i) = seg.data[i + 1]
               /\ \A i \in Len(seg.data)..(seg.memsz - 1) :
                     MemByte(memory, SegOffset(seg) + i) = {}
      /\ \A k \in (DOMAIN memory) \cup (DOMAIN prev.bus.memory) :
            (\A s \in 1..Len(log[1].segs) : k \notin SegRange(log[1].segs[s]))
              => MemByte(memory, k) = MemByte(prev.bus.memory, k)
      /\ pc = log[1].entry

\* two segments were loaded over filled memory: a byte of the zero-fill range
\* was non-zero before, and a non-zero byte lies outside both segments
C32_Witness ==
    /\ Loaded
    /\ Len(log[1].segs) = 2
    /\ \E s \in 1..2 :
          \E i \in Len(log[1].segs[s].data)..(log[1].segs[s].memsz - 1) :
             MemByte(prev.bus.memory, SegOffset(log[1].segs[s]) + i) # {}
    /\ \E k \in DOMAIN memory :
          \A s \in 1..2 : k \notin SegRange(log[1].segs[s])

ElfLoaded == ev.op = "elf"

\* the slice ends before the last byte ElfHeader::parse reads
HeaderTooShort(f) == f.len < 58

\* the offset of program header i (from 0)
PhAt(m, i) == Add64(m.phoff, BitsOf(i * m.phentsize))

\* some program header does not lie in the slice
PhTooShort(f) ==
    \E i \in 0..(f.meta.phnum - 1) :
       \/ Ltu(BitsOf(f.len), PhAt(f.meta, i))
       \/ Ltu(BitsOf(f.len), Add64(PhAt(f.meta, i), BitsOf(56)))

\* the file range of some PT_LOAD header does not lie in the slice
SegTooShort(f) ==
    \E i \in 1..f.meta.phnum :
       /\ f.meta.phs[i].type = PT_LOAD
       /\ \/ AddOverflows(f.meta.phs[i].offset, f.meta.phs[i].filesz)
          \/ Ltu(BitsOf(f.len), Add64(f.meta.phs[i].offset, f.meta.phs[i].filesz))

\* what the header check reports for the fields the file was built from
HeaderError(m) ==
    IF m.magic # ELF_MAGIC THEN "InvalidMagic"
    ELSE IF m.class # ELF_CLASS64 THEN "InvalidClass"
    ELSE IF m.enc # ELF_DATA2LSB THEN "InvalidEndian"
    ELSE IF m.machine # EM_RISCV THEN "InvalidMachine"
    ELSE "ok"

LoadHeaders(m) == SelectSeq(SubSeq(m.phs, 1, m.phnum), LAMBDA ph : ph.type = PT_LOAD)

\* C33: ELF loading reports bad input as an error value and never panics: a
\* slice too short for the header, for a program header at e_phoff + i *
\* e_phentsize, or for a PT_LOAD file range gives ParseError; a wrong magic,
\* class, data encoding or machine gives InvalidMagic, InvalidClass,
\* InvalidEndian or InvalidMachine; a load that succeeds has one segment for
\* each PT_LOAD header and none for any other.
C33_ElfErrors ==
    ElfLoaded =>
      LET f == log[1].file
          r == log[1].result
      IN /\ r.kind # "panic"
         /\ HeaderTooShort(f) => r = ElfErr("ParseError")
         /\ (~HeaderTooShort(f) /\ HeaderError(f.meta) # "ok")
              => r = ElfErr(HeaderError(f.meta))
         /\ (~HeaderTooShort(f) /\ HeaderError(f.meta) = "ok"
               /\ (PhTooShort(f) \/ SegTooShort(f)))
              => r = ElfErr("ParseError")
         /\ r.kind = "ok" =>
              /\ r.entry = f.meta.entry
              /\ Len(r.segments) = Len(LoadHeaders(f.meta))
              /\ \A i \in 1..Len(r.segments) :
                    /\ r.segments[i].vaddr = LoadHeaders(f.meta)[i].vaddr
                    /\ r.segments[i].memsz = NatOf(LoadHeaders(f.meta)[i].memsz)
                    /\ Len(r.segments[i].data) = NatOf(LoadHeaders(f.meta)[i].filesz)

InRun == Len(log) = 1 /\ log[1].k = "run"

Queued(t) == SelectSeq(t.input, LAMBDA b : b # Hangup)

\* a completed step, and what the queue and the RX FIFO were when it began
HostStepped == ev.op = "step" /\ ~fatal
QueueBefore == Queued(prev.bus.uart.terminal)
FifoBefore == prev.bus.uart.rx_fifo

\* the bytes that have entered the RX FIFO so far: the ones sent and no
\* longer queued
Entered == SubSeq(log, 1, Len(log) - Len(Queued(uart.terminal)))

\* C35: with the reader thread sending bytes and ending at any point between
\* steps, the bytes sent are, in order and each once, the ones that have left
\* the queue followed by the ones still in it, and the ones that left it are
\* the ones that entered the RX FIFO; a step takes at most one byte from the
\* queue, and a step that finds the queue empty or disconnected completes and
\* takes nothing.
C35_HostInput ==
    /\ Len(Queued(uart.terminal)) <= Len(log)
    /\ Queued(uart.terminal) = SubSeq(log, Len(Entered) + 1, Len(log))
    /\ \E n \in 0..Len(Entered) :
          uart.rx_fifo = SubSeq(Entered, n + 1, Len(Entered))
    /\ HostStepped =>
         /\ QueueBefore = <<>> =>
               /\ uart.terminal.input = prev.bus.uart.terminal.input
               /\ uart.rx_fifo = FifoBefore
         /\ QueueBefore # <<>> =>
               /\ uart.terminal.input = Tail(prev.bus.uart.terminal.input)
               /\ uart.rx_fifo = Append(FifoBefore, Head(QueueBefore))

\* a step took the second byte from the queue while the third was waiting
\* and the reader thread had ended
C35_Witness ==
    /\ HostStepped
    /\ log = <<{0}, {1}, {0, 1}>>
    /\ uart.rx_fifo = <<{0}, {1}>>
    /\ uart.terminal.input = <<{0, 1}, Hangup>>

\* the device lines as the interrupt check of the last step saw them: after
\* the input was received and the timer ticked
LinesSeen == Bus_tick(Bus_receive_uart_input(prev.bus))

\* a software or a timer interrupt was pending and enabled in the last step
HigherPending ==
    \/ Bus_check_software_interrupt(LinesSeen)
         /\ (Csr_read(prev.csr, MIE) \cap MIE_MSIE) # {}
    \/ Bus_check_timer_interrupt(LinesSeen)
         /\ (Csr_read(prev.csr, MIE) \cap MIE_MTIE) # {}

\* the last step began with a byte waiting at the terminal, the UART's
\* receive interrupt and the external interrupt enabled, and interrupts
\* enabled globally
ByteWithIrqEnabled ==
    /\ Stepped
    /\ ~fatal
    /\ prev.bus.uart.terminal.input # <<>>
    /\ (prev.bus.uart.ier \cap IER_RX_ENABLE) # {}
    /\ (Csr_read(prev.csr, MIE) \cap MIE_MEIE) # {}
    /\ (Csr_read(prev.csr, MSTATUS) \cap MSTATUS_MIE) # {}

PendingSeen ==
    \/ HigherPending
    \/ Bus_check_uart_interrupt(LinesSeen)
         /\ (Csr_read(prev.csr, MIE) \cap MIE_MEIE) # {}

\* the last three steps were an interrupt trap, the handler's MRET, and a
\* step that did not panic
AfterHandler ==
    /\ Len(log) >= 3
    /\ ev.op = "step"
    /\ ~fatal
    /\ log[Len(log) - 2].did = "interrupt"
    /\ log[Len(log) - 1].did = "exec"
    /\ IsMret(log[Len(log) - 1].inst)

\* C37: the step after the MRET that ends an interrupt handler starts at the
\* saved MEPC with MSTATUS.MIE restored.  If no interrupt is pending and
\* enabled any more (mtimecmp was raised above mtime, msip was written 0), it
\* takes no trap and executes the word at the saved MEPC; if one is, it traps
\* again with the same MEPC and the interrupted instruction does not execute.
C37_AfterMret ==
    AfterHandler =>
      /\ prev.pc = Csr_read(prev.csr, MEPC)
      /\ (Csr_read(prev.csr, MSTATUS) \cap MSTATUS_MIE) # {}
      /\ ~PendingSeen =>
           /\ Executed
           /\ ev.inst = ReadLe(prev.bus.memory, DramIndex(prev.pc), 4)
      /\ PendingSeen =>
           /\ Interrupted
           /\ Csr_read(csr, MEPC) = Csr_read(prev.csr, MEPC)
           /\ regs = prev.regs
           /\ memory = prev.bus.memory

\* the handler of a timer interrupt raised mtimecmp, and the step after its
\* MRET executed the interrupted instruction
C37_Witness ==
    /\ AfterHandler
    /\ ~PendingSeen
    /\ Executed
    /\ clint.mtimecmp = CycleCmp
    /\ Csr_read(prev.csr, MCAUSE) = INTERRUPT_BIT \cup INTERRUPT_FROM_TIMER

\* a CSR instruction: CSRRW, CSRRS, CSRRC and their immediate forms
CsrWord(inst) == opcode(inst) = SYSTEM /\ funct3(inst) \in {1, 2, 3, 5, 6, 7}

\* step i of the run entered a trap: an interrupt, or ECALL or EBREAK
TrapEntry(i) ==
    \/ log[i].did = "interrupt"
    \/ log[i].did = "exec" /\ IsTrapInst(log[i].inst)

\* step k of the run left MSTATUS.MIE set and was an MRET that found MPIE
\* set or a CSR instruction on MSTATUS
Reenables(k) ==
    /\ log[k].did = "exec"
    /\ (log[k].after \cap MSTATUS_MIE) # {}
    /\ \/ IsMret(log[k].inst) /\ (log[k].before \cap MSTATUS_MPIE) # {}
       \/ CsrWord(log[k].inst) /\ csr_addr(log[k].inst) = MSTATUS

\* C38: traps do not nest on their own.  If step i enters a trap and a later
\* step j takes an interrupt, some step between them set MSTATUS.MIE again,
\* by an MRET with MPIE = 1 or by a CSR instruction on MSTATUS; and until
\* such a step, MEPC and MCAUSE change only by an exception or a CSR
\* instruction, never by an interrupt.
C38_NoNesting ==
    \A i \in 1..Len(log) : \A j \in (i + 1)..Len(log) :
       (TrapEntry(i) /\ \A k \in (i + 1)..(j - 1) : ~Reenables(k)) =>
         /\ log[j].did # "interrupt"
         /\ \/ log[j].mepc = log[j - 1].mepc /\ log[j].mcause = log[j - 1].mcause
            \/ log[j].did = "exec"
                 /\ (IsTrapInst(log[j].inst) \/ CsrWord(log[j].inst))

\* the step after an interrupt trap executed the first instruction of the
\* handler while an interrupt was pending and enabled in MIE, and MEPC and
\* MCAUSE are those of the trap
C38_Witness ==
    /\ Len(log) >= 2
    /\ log[Len(log) - 1].did = "interrupt"
    /\ Executed
    /\ ~fatal
    /\ PendingSeen
    /\ ~IsMret(ev.inst)
    /\ Csr_read(csr, MEPC) = log[Len(log) - 1].mepc
    /\ Csr_read(csr, MCAUSE) = log[Len(log) - 1].mcause

\* C39: after every operation of the UART's register and input interface
\* tx_fifo is empty and tsr holds no byte, so the TX FIFO never holds 16
\* bytes and a read of LSR returns THRE and TEMT set.
C39_TxIdle ==
    /\ uart.tx_fifo = <<>>
    /\ uart.tsr = <<>>
    /\ Len(uart.tx_fifo) < FIFO_CAPACITY
    /\ (LSR_THRE \cup LSR_TEMT) \subseteq Uart_read8(uart, UART_LSR).val

\* two bytes were written to THR, with a received byte waiting, and the
\* transmitter is idle
C39_Witness ==
    /\ Len(log) = 2
    /\ Len(uart.terminal.output) = 2
    /\ uart.rx_fifo # <<>>
    /\ uart.tx_fifo = <<>>
    /\ uart.tsr = <<>>
    /\ ~fatal
====
